---- MODULE Spec2Model ----
(***************************************************************************)
(* Model of the storage core of Go-DB: the copy-on-write B+-tree           *)
(* (refactor_code/internal/storage/btree), its in-memory test pager        *)
(* (kv-store/test_btree.go) and the reader/writer transaction layer        *)
(* (transaction/define.go, concurrent-reader-writer/define.go).            *)
(*                                                                         *)
(* Byte strings are modelled by their run-length form <<b, n>>: the byte b *)
(* repeated n times (<<0, 0>> is the empty string).  Lengths are the real  *)
(* lengths in bytes, so the page arithmetic of the code is kept as it is.  *)
(* A node is its type tag and its list of entries; nbytes() is computed    *)
(* from the entry lengths exactly as the page layout does.                 *)
(***************************************************************************)
EXTENDS Integers, Sequences, FiniteSets, TLC

----------------------------------------------------------------------------
(* Program constants *)

BTREE_PAGE_SIZE == 4096
BTREE_MAX_KEY_SIZE == 1000
BTREE_MAX_VAL_SIZE == 3000
HEADER == 4
BNODE_NODE == 1
BNODE_LEAF == 2

----------------------------------------------------------------------------
(* Bounds of the model *)

\* number of distinct 1000-byte keys the B+-tree harness draws from
NumKeys == 2
\* number of distinct 1000-byte keys of the iterator runs
NumBigKeys == 6
\* number of distinct 1000-byte keys of the runs that split leaves three ways
NumSplitKeys == 4
\* number of distinct 1000-byte keys of the runs that build three levels
NumDeepKeys == 8
\* number of write transactions / readers of the transaction layer
NumWriters == 2
NumReaders == 1
\* readers and versions of the runs of the reader list
NumHeapReaders == 4
MaxVersion == 2
\* the transaction layer stops allocating at this page number
MaxPage == 5
\* operations a single write transaction performs before it ends
MaxTxOps == 2

----------------------------------------------------------------------------
(* Byte strings *)

EmptyBytes == <<0, 0>>
BLen(s) == s[2]

\* bytes.Compare on run-length strings: -1, 0, +1
BytesCompare(x, y) ==
    LET lenCmp == IF x[2] < y[2] THEN -1 ELSE IF x[2] > y[2] THEN 1 ELSE 0
    IN  IF x[2] = 0 \/ y[2] = 0 THEN lenCmp
        ELSE IF x[1] < y[1] THEN -1
        ELSE IF x[1] > y[1] THEN 1
        ELSE lenCmp

BytesEqual(x, y) == BytesCompare(x, y) = 0

----------------------------------------------------------------------------
(* Page codec: BNode *)

Item(k, v, p) == [key |-> k, val |-> v, ptr |-> p]
BNode(t, items) == [btype |-> t, items |-> items]
\* a page of zero bytes (never written): type 0, no keys
ZeroPage == BNode(0, <<>>)

btype(node) == node.btype
nkeys(node) == Len(node.items)
getPtr(node, idx) == node.items[idx + 1].ptr
getKey(node, idx) == node.items[idx + 1].key
getVal(node, idx) == node.items[idx + 1].val

RECURSIVE KVBytes(_, _)
KVBytes(items, n) ==
    IF n = 0 THEN 0
    ELSE KVBytes(items, n - 1) + 4 + BLen(items[n].key) + BLen(items[n].val)

getOffset(node, idx) == KVBytes(node.items, idx)
kvPos(node, idx) == HEADER + 8 * nkeys(node) + 2 * nkeys(node) + getOffset(node, idx)
nbytes(node) == kvPos(node, nkeys(node))

\* entries [from, from+n) of a node, 0-based (nodeAppendRange's source range)
Range(node, from, n) == SubSeq(node.items, from + 1, from + n)

----------------------------------------------------------------------------
(* Pagers.  A pager state st is a record                                   *)
(*   kind    "mem" (test harness), "tx" (write transaction) or "map" (the  *)
(*           tree of the KV and of its readers, reading the mapped file)   *)
(*   pages   mem: the allocated pages; tx: the overlay page.updates        *)
(*   nappend, flushed   tx only                                            *)
(*   disk    tx, map: the pages of the mapped file                         *)
(*   panic   "" or the message of the panic that stopped the operation     *)
(*   calls   the number of calls of the callbacks get, new, del so far      *)

\* a local variable: the value v, computed once, under the name F gives it
With(v, F(_)) == F(v)

\* a nil entry of page.updates: a deallocated page
NilPage == [btype |-> -1, items |-> <<>>]

Panic(st, msg) == [st EXCEPT !.panic = IF st.panic = "" THEN msg ELSE st.panic]

Put(f, k, v) == [x \in DOMAIN f \cup {k} |-> IF x = k THEN v ELSE f[x]]
Drop(f, k) == [x \in DOMAIN f \ {k} |-> f[x]]

\* an address the allocator has not handed to a live page
FreshPtr(pages) ==
    CHOOSE p \in 1..(Cardinality(DOMAIN pages) + 1) :
        /\ p \notin DOMAIN pages
        /\ \A q \in 1..(p - 1) : q \in DOMAIN pages

\* the test harness: get, new, del of newC()
C_get(st, ptr) ==
    IF ptr \in DOMAIN st.pages
    THEN [st |-> st, node |-> st.pages[ptr]]
    ELSE [st |-> Panic(st, "node not found"), node |-> ZeroPage]

C_new(st, node) ==
    IF nbytes(node) > BTREE_PAGE_SIZE
    THEN [st |-> Panic(st, "node too large"), ptr |-> 0]
    ELSE LET p == FreshPtr(st.pages)
         IN  [st |-> [st EXCEPT !.pages = Put(st.pages, p, node)], ptr |-> p]

C_del(st, ptr) ==
    IF ptr \in DOMAIN st.pages
    THEN [st EXCEPT !.pages = Drop(st.pages, ptr)]
    ELSE Panic(st, "node not found")

\* the mapped file as the committed tree reads it: a page that was never
\* written reads as zeroes
pageRead(disk, ptr) == IF ptr \in DOMAIN disk THEN disk[ptr] ELSE ZeroPage

\* the write transaction: KVTX.pageGet, KVTX.pageNew, KVTX.pageDel
KVTX_pageGet(st, ptr) ==
    IF ptr \in DOMAIN st.pages
    THEN IF st.pages[ptr] = NilPage
         THEN \* BNode{}: the caller's first access indexes an empty slice
              [st |-> Panic(st, "index out of range"), node |-> ZeroPage]
         ELSE [st |-> st, node |-> st.pages[ptr]]
    ELSE [st |-> st, node |-> pageRead(st.disk, ptr)]

KVTX_pageNew(st, node) ==
    LET p == st.flushed + st.nappend
    IN  [st |-> [st EXCEPT !.pages = Put(st.pages, p, node),
                           !.nappend = st.nappend + 1],
         ptr |-> p]

KVTX_pageDel(st, ptr) == [st EXCEPT !.pages = Put(st.pages, ptr, NilPage)]

\* the disk store. FreeList.Total, FreeList.Get, FreeList.Update
NoFreeList == [total |-> 0, freePages |-> <<>>]

FreeList_Total(fl) == fl.total

FreeList_Get(fl, index) ==
    IF index >= Len(fl.freePages) \/ index < 0 THEN 0 ELSE fl.freePages[index + 1]

FreeList_Update(fl, nfree, freed) ==
    With(SelectSeq(freed, LAMBDA ptr : ptr # 0), LAMBDA added :
    With([total |-> fl.total + Len(added), freePages |-> fl.freePages \o added], LAMBDA f :
         IF nfree > 0 /\ nfree <= Len(f.freePages)
         THEN [total |-> f.total - nfree,
               freePages |-> SubSeq(f.freePages, nfree + 1, Len(f.freePages))]
         ELSE f))

\* the pages of the first mapping: 64 MiB, which can be larger than the file
MmapPages == 16384

\* pageGetMapped: the file is the function disk from its page numbers to
\* its pages; a page of the mapping beyond the end of the file faults
pageGetMapped(st, ptr) ==
    IF ptr \in DOMAIN st.disk THEN [st |-> st, node |-> st.disk[ptr]]
    ELSE IF ptr < MmapPages THEN [st |-> Panic(st, "SIGBUS"), node |-> ZeroPage]
    ELSE [st |-> Panic(st, "bad ptr"), node |-> ZeroPage]

\* KV.pageGet; page.updates is the function pages, or nil (nilmap)
KV_pageGet(st, ptr) ==
    IF ~st.nilmap /\ ptr \in DOMAIN st.pages
    THEN IF st.pages[ptr] = NilPage
         THEN [st |-> Panic(st, "page != nil"), node |-> ZeroPage]
         ELSE [st |-> st, node |-> st.pages[ptr]]
    ELSE pageGetMapped(st, ptr)

\* KV.pageNew
KV_pageNew(st, node) ==
    IF nbytes(node) > BTREE_PAGE_SIZE
    THEN [st |-> Panic(st, "len(node.data) <= BTREE_PAGE_SIZE"), ptr |-> 0]
    ELSE With(IF st.nfree < FreeList_Total(st.free)
              THEN [st |-> [st EXCEPT !.nfree = @ + 1],
                    ptr |-> FreeList_Get(st.free, st.nfree)]
              ELSE [st |-> [st EXCEPT !.nappend = @ + 1],
                    ptr |-> st.flushed + st.nappend], LAMBDA a :
         IF st.nilmap
         THEN [st |-> Panic(a.st, "assignment to entry in nil map"), ptr |-> 0]
         ELSE [st |-> [a.st EXCEPT !.pages = Put(st.pages, a.ptr, node)], ptr |-> a.ptr])

\* KV.pageDel
KV_pageDel(st, ptr) ==
    IF st.nilmap THEN Panic(st, "assignment to entry in nil map")
    ELSE [st EXCEPT !.pages = Put(st.pages, ptr, NilPage)]

\* a call of a callback is counted
Called(st) == [st EXCEPT !.calls = @ + 1]

\* the callbacks of a BTree value
tree_get(st, ptr) ==
    IF st.panic # "" THEN [st |-> st, node |-> ZeroPage]
    ELSE With(IF st.kind = "mem" THEN C_get(st, ptr)
              ELSE IF st.kind = "tx" THEN KVTX_pageGet(st, ptr)
              ELSE IF st.kind = "disk" THEN KV_pageGet(st, ptr)
              ELSE [st |-> st, node |-> pageRead(st.disk, ptr)], LAMBDA g :
         [st |-> Called(g.st), node |-> g.node])

tree_new(st, node) ==
    IF st.panic # "" THEN [st |-> st, ptr |-> 0]
    ELSE With(IF st.kind = "mem" THEN C_new(st, node)
              ELSE IF st.kind = "disk" THEN KV_pageNew(st, node)
              ELSE KVTX_pageNew(st, node), LAMBDA a :
         [st |-> Called(a.st), ptr |-> a.ptr])

tree_del(st, ptr) ==
    IF st.panic # "" THEN st
    ELSE Called(IF st.kind = "mem" THEN C_del(st, ptr)
                ELSE IF st.kind = "disk" THEN KV_pageDel(st, ptr)
                ELSE KVTX_pageDel(st, ptr))

----------------------------------------------------------------------------
(* B+-tree: lookup *)

RECURSIVE LookupLoop(_, _, _, _)
LookupLoop(node, key, i, found) ==
    IF i >= nkeys(node) THEN found
    ELSE LET cmp == BytesCompare(getKey(node, i), key)
             f2 == IF cmp <= 0 THEN i ELSE found
         IN  IF cmp >= 0 THEN f2 ELSE LookupLoop(node, key, i + 1, f2)

nodeLookupLE(node, key) == LookupLoop(node, key, 1, 0)

\* a checkLimit that would test the key only
checkLimit_key(key, val) ==
    IF BLen(key) > BTREE_MAX_KEY_SIZE THEN "key too large" ELSE ""

checkLimit(key, val) ==
    IF BLen(key) > BTREE_MAX_KEY_SIZE THEN "key too large"
    ELSE IF BLen(val) > BTREE_MAX_VAL_SIZE THEN "value too large"
    ELSE ""

\* BTree.Get: [found, val, panic]
RECURSIVE GetLoop(_, _, _)
GetLoop(st, node, key) ==
    LET idx == nodeLookupLE(node, key)
    IN  IF btype(node) = BNODE_LEAF
        THEN IF idx < nkeys(node) /\ BytesEqual(getKey(node, idx), key)
             THEN [found |-> TRUE, val |-> getVal(node, idx), panic |-> ""]
             ELSE [found |-> FALSE, val |-> EmptyBytes, panic |-> ""]
        ELSE IF btype(node) = BNODE_NODE
        THEN IF idx >= nkeys(node)
             THEN [found |-> FALSE, val |-> EmptyBytes, panic |-> "Index out of bounds"]
             ELSE LET g == tree_get(st, getPtr(node, idx))
                  IN  IF g.st.panic # ""
                      THEN [found |-> FALSE, val |-> EmptyBytes, panic |-> g.st.panic]
                      ELSE GetLoop(st, g.node, key)
        ELSE [found |-> FALSE, val |-> EmptyBytes, panic |-> "invalid node type"]

Get(st, root, key) ==
    IF root = 0 THEN [found |-> FALSE, val |-> EmptyBytes, panic |-> ""]
    ELSE LET g == tree_get(st, root)
         IN  IF g.st.panic # ""
             THEN [found |-> FALSE, val |-> EmptyBytes, panic |-> g.st.panic]
             ELSE GetLoop(st, g.node, key)

----------------------------------------------------------------------------
(* B+-tree: insertion *)

leafInsert(old, idx, key, val) ==
    BNode(BNODE_LEAF,
          Range(old, 0, idx) \o <<Item(key, val, 0)>> \o Range(old, idx, nkeys(old) - idx))

leafUpdate(old, idx, key, val) ==
    BNode(BNODE_LEAF,
          Range(old, 0, idx) \o <<Item(key, val, 0)>>
              \o Range(old, idx + 1, nkeys(old) - (idx + 1)))

\* nodeSplit2: [left, right, panic]
left_bytes(old, nleft) == 4 + 8 * nleft + 2 * nleft + getOffset(old, nleft)
right_bytes(old, nleft) == nbytes(old) - left_bytes(old, nleft) + 4

RECURSIVE ShrinkLeft(_, _)
ShrinkLeft(old, nleft) ==
    IF left_bytes(old, nleft) > BTREE_PAGE_SIZE THEN ShrinkLeft(old, nleft - 1) ELSE nleft

RECURSIVE GrowLeft(_, _)
GrowLeft(old, nleft) ==
    IF right_bytes(old, nleft) > BTREE_PAGE_SIZE THEN GrowLeft(old, nleft + 1) ELSE nleft

\* a nodeSplit2 that cuts at the initial guess and fits neither half
nodeSplit2_half(old) ==
    [left |-> BNode(btype(old), Range(old, 0, nkeys(old) \div 2)),
     right |-> BNode(btype(old), Range(old, nkeys(old) \div 2,
                                       nkeys(old) - nkeys(old) \div 2)),
     panic |-> ""]

nodeSplit2(old) ==
    LET none == [left |-> ZeroPage, right |-> ZeroPage]
    IN  IF nkeys(old) < 2 THEN none @@ [panic |-> "old.nkeys() >= 2"]
        ELSE With(ShrinkLeft(old, nkeys(old) \div 2), LAMBDA n1 :
             IF n1 < 1 THEN none @@ [panic |-> "nleft >= 1"]
             ELSE With(GrowLeft(old, n1), LAMBDA nleft :
                  IF nleft >= nkeys(old) THEN none @@ [panic |-> "nleft < old.nkeys()"]
                  ELSE [left |-> BNode(btype(old), Range(old, 0, nleft)),
                        right |-> BNode(btype(old), Range(old, nleft, nkeys(old) - nleft)),
                        panic |-> ""]))

\* nodeSplit3: [split, panic], split a sequence of 1 to 3 nodes
nodeSplit3(old) ==
    IF nbytes(old) <= BTREE_PAGE_SIZE THEN [split |-> <<old>>, panic |-> ""]
    ELSE With(nodeSplit2(old), LAMBDA s1 :
         IF s1.panic # "" THEN [split |-> <<>>, panic |-> s1.panic]
         ELSE IF nbytes(s1.left) <= BTREE_PAGE_SIZE
         THEN [split |-> <<s1.left, s1.right>>, panic |-> ""]
         ELSE With(nodeSplit2(s1.left), LAMBDA s2 :
              IF s2.panic # "" THEN [split |-> <<>>, panic |-> s2.panic]
              ELSE IF nbytes(s2.left) > BTREE_PAGE_SIZE
              THEN [split |-> <<>>, panic |-> "leftleft.nbytes() <= BTREE_PAGE_SIZE"]
              ELSE [split |-> <<s2.left, s2.right, s1.right>>, panic |-> ""]))

\* the loop of nodeReplaceKidN and of the root split: allocate each kid in
\* order and build its entry (pointer, first key): [st, items]
RECURSIVE AllocKids(_, _)
AllocKids(st, kids) ==
    IF kids = <<>> \/ st.panic # "" THEN [st |-> st, items |-> <<>>]
    ELSE With(tree_new(st, Head(kids)), LAMBDA a :
         IF a.st.panic # "" THEN [st |-> a.st, items |-> <<>>]
         ELSE IF nkeys(Head(kids)) = 0
         THEN [st |-> Panic(a.st, "idx < node.nkeys()"), items |-> <<>>]
         ELSE With(AllocKids(a.st, Tail(kids)), LAMBDA rest :
              [st |-> rest.st,
               items |-> <<Item(getKey(Head(kids), 0), EmptyBytes, a.ptr)>> \o rest.items]))

\* nodeReplaceKidN into a buffer of cap bytes: [st, node]
nodeReplaceKidN(st, old, idx, kids, cap) ==
    With(AllocKids(st, kids), LAMBDA a :
    With(BNode(BNODE_NODE,
               Range(old, 0, idx) \o a.items \o Range(old, idx + 1, nkeys(old) - (idx + 1))),
         LAMBDA new :
    IF a.st.panic # "" THEN [st |-> a.st, node |-> ZeroPage]
    ELSE IF nbytes(new) > cap
    THEN [st |-> Panic(a.st, "slice bounds out of range"), node |-> ZeroPage]
    ELSE [st |-> a.st, node |-> new]))

RECURSIVE treeInsert(_, _, _, _)
\* a nodeInsert that does not deallocate the kid it replaces
nodeInsert_keep(st, node, idx, key, val) ==
    IF idx >= nkeys(node) THEN [st |-> Panic(st, "Index out of bounds"), node |-> ZeroPage]
    ELSE With(getPtr(node, idx), LAMBDA kptr :
         With(tree_get(st, kptr), LAMBDA g :
         With(treeInsert(g.st, g.node, key, val), LAMBDA r :
         IF r.st.panic # "" THEN [st |-> r.st, node |-> ZeroPage]
         ELSE With(nodeSplit3(r.node), LAMBDA sp :
              IF sp.panic # "" THEN [st |-> Panic(r.st, sp.panic), node |-> ZeroPage]
              ELSE nodeReplaceKidN(r.st, node, idx, sp.split, 2 * BTREE_PAGE_SIZE)))))

\* nodeInsert: [st, node]
nodeInsert(st, node, idx, key, val) ==
    IF idx >= nkeys(node) THEN [st |-> Panic(st, "Index out of bounds"), node |-> ZeroPage]
    ELSE With(getPtr(node, idx), LAMBDA kptr :
         With(tree_get(st, kptr), LAMBDA g :
         With(treeInsert(tree_del(g.st, kptr), g.node, key, val), LAMBDA r :
         IF r.st.panic # "" THEN [st |-> r.st, node |-> ZeroPage]
         ELSE With(nodeSplit3(r.node), LAMBDA sp :
              IF sp.panic # "" THEN [st |-> Panic(r.st, sp.panic), node |-> ZeroPage]
              ELSE nodeReplaceKidN(r.st, node, idx, sp.split, 2 * BTREE_PAGE_SIZE)))))

\* treeInsert: [st, node]; the result may be bigger than one page
treeInsert(st, node, key, val) ==
    IF st.panic # "" THEN [st |-> st, node |-> ZeroPage]
    ELSE
    With(nodeLookupLE(node, key), LAMBDA idx :
    IF btype(node) = BNODE_LEAF
    THEN IF idx >= nkeys(node)
         THEN [st |-> Panic(st, "idx < node.nkeys()"), node |-> ZeroPage]
         ELSE With(IF BytesEqual(key, getKey(node, idx))
                   THEN leafUpdate(node, idx, key, val)
                   ELSE leafInsert(node, idx + 1, key, val), LAMBDA new :
              IF nbytes(new) > 2 * BTREE_PAGE_SIZE
              THEN [st |-> Panic(st, "slice bounds out of range"), node |-> ZeroPage]
              ELSE [st |-> st, node |-> new])
    ELSE IF btype(node) = BNODE_NODE
    THEN nodeInsert(st, node, idx, key, val)
    ELSE [st |-> Panic(st, "invalid node type"), node |-> ZeroPage])

\* BTree.Insert: [st, root, err]
Insert(st, root, key, val) ==
    IF checkLimit(key, val) # "" THEN [st |-> st, root |-> root, err |-> checkLimit(key, val)]
    ELSE IF root = 0
    THEN With(tree_new(st, BNode(BNODE_LEAF,
                                 <<Item(EmptyBytes, EmptyBytes, 0), Item(key, val, 0)>>)),
              LAMBDA a :
         [st |-> a.st, root |-> IF a.st.panic = "" THEN a.ptr ELSE root, err |-> ""])
    ELSE With(tree_get(st, root), LAMBDA g :
         With(treeInsert(tree_del(g.st, root), g.node, key, val), LAMBDA r :
         IF r.st.panic # "" THEN [st |-> r.st, root |-> root, err |-> ""]
         ELSE With(nodeSplit3(r.node), LAMBDA sp :
              IF sp.panic # "" THEN [st |-> Panic(r.st, sp.panic), root |-> root, err |-> ""]
              ELSE With(IF Len(sp.split) > 1
                        THEN With(AllocKids(r.st, sp.split), LAMBDA a :
                                  tree_new(a.st, BNode(BNODE_NODE, a.items)))
                        ELSE tree_new(r.st, sp.split[1]), LAMBDA b :
                   [st |-> b.st, root |-> IF b.st.panic = "" THEN b.ptr ELSE root,
                    err |-> ""]))))

----------------------------------------------------------------------------
(* B+-tree: deletion *)

leafDelete(old, idx) ==
    BNode(BNODE_LEAF, Range(old, 0, idx) \o Range(old, idx + 1, nkeys(old) - (idx + 1)))

nodeMerge(left, right) == BNode(btype(left), left.items \o right.items)

nodeReplace2Kid(old, idx, ptr, key) ==
    BNode(BNODE_NODE,
          Range(old, 0, idx) \o <<Item(key, EmptyBytes, ptr)>>
              \o Range(old, idx + 2, nkeys(old) - (idx + 2)))

\* a shouldMerge without the quarter-page threshold
shouldMerge_any(st, node, idx, updated) ==
    With([st |-> st, dir |-> 0, sibling |-> ZeroPage], LAMBDA no :
    With(IF idx > 0
         THEN With(tree_get(st, getPtr(node, idx - 1)), LAMBDA g :
              IF g.st.panic # "" THEN [st |-> g.st, dir |-> 0, sibling |-> ZeroPage]
              ELSE IF nbytes(g.node) + nbytes(updated) - HEADER <= BTREE_PAGE_SIZE
              THEN [st |-> st, dir |-> -1, sibling |-> g.node]
              ELSE no)
         ELSE no, LAMBDA left :
    IF left.dir # 0 \/ left.st.panic # "" THEN left
    ELSE IF idx + 1 < nkeys(node)
    THEN With(tree_get(st, getPtr(node, idx + 1)), LAMBDA g :
         IF g.st.panic # "" THEN [st |-> g.st, dir |-> 0, sibling |-> ZeroPage]
         ELSE IF nbytes(g.node) + nbytes(updated) - HEADER <= BTREE_PAGE_SIZE
         THEN [st |-> st, dir |-> 1, sibling |-> g.node]
         ELSE no)
    ELSE no))

\* shouldMerge: [st, dir, sibling]
shouldMerge(st, node, idx, updated) ==
    With([st |-> st, dir |-> 0, sibling |-> ZeroPage], LAMBDA no :
    IF nbytes(updated) > BTREE_PAGE_SIZE \div 4 THEN no
    ELSE With(IF idx > 0
              THEN With(tree_get(st, getPtr(node, idx - 1)), LAMBDA g :
                   IF g.st.panic # "" THEN [st |-> g.st, dir |-> 0, sibling |-> ZeroPage]
                   ELSE IF nbytes(g.node) + nbytes(updated) - HEADER <= BTREE_PAGE_SIZE
                   THEN [st |-> st, dir |-> -1, sibling |-> g.node]
                   ELSE no)
              ELSE no, LAMBDA left :
         IF left.dir # 0 \/ left.st.panic # "" THEN left
         ELSE IF idx + 1 < nkeys(node)
         THEN With(tree_get(st, getPtr(node, idx + 1)), LAMBDA g :
              IF g.st.panic # "" THEN [st |-> g.st, dir |-> 0, sibling |-> ZeroPage]
              ELSE IF nbytes(g.node) + nbytes(updated) - HEADER <= BTREE_PAGE_SIZE
              THEN [st |-> st, dir |-> 1, sibling |-> g.node]
              ELSE no)
         ELSE no))

\* the two merge arms of nodeDelete: free the sibling, allocate the merged
\* node, replace the two entries at [at, at+1] of the parent: [st, found, node]
MergeInto(st, node, at, sibPtr, merged) ==
    With(tree_new(tree_del(st, sibPtr), merged), LAMBDA a :
    IF a.st.panic # "" THEN [st |-> a.st, found |-> TRUE, node |-> ZeroPage]
    ELSE IF nkeys(merged) = 0
    THEN [st |-> Panic(a.st, "idx < node.nkeys()"), found |-> TRUE, node |-> ZeroPage]
    ELSE With(nodeReplace2Kid(node, at, a.ptr, getKey(merged, 0)), LAMBDA new :
         IF nbytes(new) > BTREE_PAGE_SIZE
         THEN [st |-> Panic(a.st, "slice bounds out of range"), found |-> TRUE,
               node |-> ZeroPage]
         ELSE [st |-> a.st, found |-> TRUE, node |-> new]))

RECURSIVE treeDelete(_, _, _)
\* nodeDelete: [st, found, node]
nodeDelete(st, node, idx, key) ==
    IF idx >= nkeys(node)
    THEN [st |-> Panic(st, "Index out of bounds"), found |-> FALSE, node |-> ZeroPage]
    ELSE
    With(getPtr(node, idx), LAMBDA kptr :
    With(tree_get(st, kptr), LAMBDA g :
    With(treeDelete(g.st, g.node, key), LAMBDA r :
    IF r.st.panic # "" \/ ~r.found THEN r
    ELSE
    With(tree_del(r.st, kptr), LAMBDA st1 :
    With(r.node, LAMBDA updated :
    IF st1.panic # "" THEN [st |-> st1, found |-> TRUE, node |-> ZeroPage]
    ELSE
    With(shouldMerge(st1, node, idx, updated), LAMBDA m :
    IF m.st.panic # "" THEN [st |-> m.st, found |-> TRUE, node |-> ZeroPage]
    ELSE IF m.dir < 0
    THEN MergeInto(st1, node, idx - 1, getPtr(node, idx - 1), nodeMerge(m.sibling, updated))
    ELSE IF m.dir > 0
    THEN MergeInto(st1, node, idx, getPtr(node, idx + 1), nodeMerge(updated, m.sibling))
    ELSE IF nkeys(updated) = 0
    THEN [st |-> Panic(st1, "updated.nkeys() > 0"), found |-> TRUE, node |-> ZeroPage]
    ELSE With(nodeReplaceKidN(st1, node, idx, <<updated>>, BTREE_PAGE_SIZE), LAMBDA k :
         [st |-> k.st, found |-> TRUE, node |-> k.node])))))))

\* treeDelete: [st, found, node]; found = FALSE is the empty BNode{}
treeDelete(st, node, key) ==
    IF st.panic # "" THEN [st |-> st, found |-> FALSE, node |-> ZeroPage]
    ELSE
    With(nodeLookupLE(node, key), LAMBDA idx :
    IF btype(node) = BNODE_LEAF
    THEN IF idx >= nkeys(node)
         THEN [st |-> Panic(st, "idx < node.nkeys()"), found |-> FALSE, node |-> ZeroPage]
         ELSE IF ~BytesEqual(key, getKey(node, idx))
         THEN [st |-> st, found |-> FALSE, node |-> ZeroPage]
         ELSE [st |-> st, found |-> TRUE, node |-> leafDelete(node, idx)]
    ELSE IF btype(node) = BNODE_NODE
    THEN nodeDelete(st, node, idx, key)
    ELSE [st |-> Panic(st, "invalid node type"), found |-> FALSE, node |-> ZeroPage])

\* a Delete that would write the root again without looking for the key
Delete_copy(st, root, key) ==
    IF root = 0 THEN [st |-> st, root |-> root, ret |-> FALSE]
    ELSE With(tree_get(st, root), LAMBDA g :
         With(tree_new(tree_del(g.st, root), g.node), LAMBDA a :
         [st |-> a.st, root |-> a.ptr, ret |-> FALSE]))

\* a Delete that allocates the updated root whatever it is
Delete_alloc(st, root, key) ==
    IF root = 0 THEN [st |-> st, root |-> root, ret |-> FALSE]
    ELSE IF checkLimit(key, EmptyBytes) # "" THEN [st |-> st, root |-> root, ret |-> FALSE]
    ELSE
    With(tree_get(st, root), LAMBDA g :
    With(treeDelete(g.st, g.node, key), LAMBDA r :
    IF r.st.panic # "" THEN [st |-> r.st, root |-> root, ret |-> FALSE]
    ELSE IF ~r.found THEN [st |-> st, root |-> root, ret |-> FALSE]
    ELSE With(tree_new(tree_del(r.st, root), r.node), LAMBDA a :
         [st |-> a.st, root |-> IF a.st.panic = "" THEN a.ptr ELSE root,
          ret |-> a.st.panic = ""])))

\* BTree.Delete: [st, root, ret]
Delete(st, root, key) ==
    IF root = 0 THEN [st |-> st, root |-> root, ret |-> FALSE]
    ELSE IF checkLimit(key, EmptyBytes) # "" THEN [st |-> st, root |-> root, ret |-> FALSE]
    ELSE
    With(tree_get(st, root), LAMBDA g :
    With(treeDelete(g.st, g.node, key), LAMBDA r :
    IF r.st.panic # "" THEN [st |-> r.st, root |-> root, ret |-> FALSE]
    ELSE IF ~r.found THEN [st |-> st, root |-> root, ret |-> FALSE]
    ELSE
    With(tree_del(r.st, root), LAMBDA st1 :
    IF st1.panic # "" THEN [st |-> st1, root |-> root, ret |-> FALSE]
    ELSE IF btype(r.node) = BNODE_NODE /\ nkeys(r.node) = 1
    THEN [st |-> st1, root |-> getPtr(r.node, 0), ret |-> TRUE]
    ELSE With(tree_new(st1, r.node), LAMBDA a :
         [st |-> a.st, root |-> IF a.st.panic = "" THEN a.ptr ELSE root,
          ret |-> a.st.panic = ""]))))

\* BTree.Update: [st, root, ret, err]
BTree_Update(st, root, key, val, mode) ==
    IF mode \notin 0..2
    THEN [st |-> st, root |-> root, ret |-> FALSE, err |-> "invalid mode"]
    ELSE With(IF mode = 0 THEN [found |-> TRUE, panic |-> ""] ELSE Get(st, root, key),
              LAMBDA g :
         IF g.panic # ""
         THEN [st |-> Panic(st, g.panic), root |-> root, ret |-> FALSE, err |-> ""]
         ELSE IF mode = 0 \/ (mode = 1 /\ g.found) \/ (mode = 2 /\ ~g.found)
         THEN With(Insert(st, root, key, val), LAMBDA r :
              [st |-> r.st, root |-> r.root, ret |-> TRUE, err |-> r.err])
         ELSE [st |-> st, root |-> root, ret |-> FALSE, err |-> ""])

----------------------------------------------------------------------------
(* B+-tree: iterator *)

\* BTree.SeekLE: [path, pos, panic]
RECURSIVE SeekLoop(_, _, _, _)
SeekLoop(st, ptr, key, it) ==
    IF ptr = 0 THEN it
    ELSE With(tree_get(st, ptr), LAMBDA g :
         IF g.st.panic # "" THEN [it EXCEPT !.panic = g.st.panic]
         ELSE
         With(nodeLookupLE(g.node, key), LAMBDA idx :
         With([path |-> Append(it.path, g.node), pos |-> Append(it.pos, idx), panic |-> ""],
              LAMBDA it1 :
         IF btype(g.node) = BNODE_NODE
         THEN IF idx >= nkeys(g.node) THEN [it1 EXCEPT !.panic = "Index out of bounds"]
              ELSE SeekLoop(st, getPtr(g.node, idx), key, it1)
         ELSE it1)))

SeekLE(st, root, key) == SeekLoop(st, root, key, [path |-> <<>>, pos |-> <<>>, panic |-> ""])

Valid(it) == Len(it.path) > 0 /\ Len(it.pos) > 0

\* BIter.Deref: [key, val, panic]
Deref(it) ==
    IF ~Valid(it) THEN [key |-> EmptyBytes, val |-> EmptyBytes, panic |-> ""]
    ELSE LET leaf == it.path[Len(it.path)]
             idx == it.pos[Len(it.pos)]
         IN  IF idx >= nkeys(leaf)
             THEN [key |-> EmptyBytes, val |-> EmptyBytes, panic |-> "idx < node.nkeys()"]
             ELSE [key |-> getKey(leaf, idx), val |-> getVal(leaf, idx), panic |-> ""]

\* "update the kid node" of iterPrev and iterNext; level is 0-based
UpdateKid(st, it, level, last) ==
    IF it.panic # "" \/ ~(level + 1 < Len(it.pos)) THEN it
    ELSE LET node == it.path[level + 1]
         IN  IF it.pos[level + 1] >= nkeys(node)
             THEN [it EXCEPT !.panic = "Index out of bounds"]
             ELSE With(tree_get(st, getPtr(node, it.pos[level + 1])), LAMBDA g :
                  IF g.st.panic # "" THEN [it EXCEPT !.panic = g.st.panic]
                  ELSE [it EXCEPT !.path[level + 2] = g.node,
                                  !.pos[level + 2] =
                                      IF last THEN (nkeys(g.node) - 1) % 65536 ELSE 0])

RECURSIVE iterPrev(_, _, _)
iterPrev(st, it, level) ==
    IF it.pos[level + 1] > 0
    THEN UpdateKid(st, [it EXCEPT !.pos[level + 1] = it.pos[level + 1] - 1], level, TRUE)
    ELSE IF level > 0
    THEN UpdateKid(st, iterPrev(st, it, level - 1), level, TRUE)
    ELSE it

RECURSIVE iterNext(_, _, _)
iterNext(st, it, level) ==
    IF (it.pos[level + 1] + 1) % 65536 < nkeys(it.path[level + 1])
    THEN UpdateKid(st, [it EXCEPT !.pos[level + 1] = it.pos[level + 1] + 1], level, FALSE)
    ELSE IF level > 0
    THEN UpdateKid(st, iterNext(st, it, level - 1), level, FALSE)
    ELSE it

\* BIter.Prev, BIter.Next
Prev(st, it) == iterPrev(st, it, Len(it.path) - 1)
Next(st, it) == iterNext(st, it, Len(it.path) - 1)

----------------------------------------------------------------------------
(* The test harness C of kv-store/test_btree.go: a tree over in-memory     *)
(* pages and the reference map, extended with one iterator.                *)

VARIABLES root, pages, ref, panicked, last, iter

cvars == <<root, pages, ref, panicked, last, iter>>

\* The transactional KV of concurrent-reader-writer/define.go and the write
\* transactions of transaction/define.go:
\*   kv       the fields of struct KV: tree.root, page.flushed, version, free,
\*            readers (the heap, as reader ids) and the holder of writer (0: none)
\*   mmap     the pages of the mapped file
\*   txs      the KVTX of each writer
\*   rds      the KVReader of each reader
\*   crashed  "" or the panic that ended the process
\*   guarded  history: the pairs <<p, r>> of a page p freed by a committed
\*            transaction and a reader r that was registered at that commit and
\*            has not ended since
VARIABLES kv, mmap, txs, rds, crashed, guarded

txvars == <<kv, mmap, txs, rds, crashed, guarded>>
\* the disk store: the KV value of a process, and the database file
VARIABLES db
dvars == <<db>>
\* the concurrency package: an RWMutex with the goroutines that use it, and
\* an MVCCManager with its clock
VARIABLES rw, mv
\* the linked free list of kv-store/define.go with its pages, the
\* TransactionManager of the transaction package, and the IsolationManager
VARIABLES flist, tm, im
\* the KV of src/unnamed/part_001: its file and its mappings
VARIABLES pager
evars == <<flist, tm, im, pager>>
lvars == <<rw, mv, evars>>
vars == <<cvars, txvars, dvars, lvars>>

\* the goroutines that use the RWMutex
NumProcs == 3
Procs == 1..NumProcs

\* a goroutine: where it is in RLock or Lock (idle: in neither; rstart,
\* wstart: started by WaitForLock; rwait, wwait: in Cond.Wait; rwake, wwake:
\* awoken, before it has the mutex mu again), the lock it holds, how its
\* caller stands in WaitForLock (select: waiting; true, false: returned),
\* and the result of its last TryRLock or TryLock
NewG == [pc |-> "idle", held |-> "", via |-> "", ret |-> ""]

\* NewRWMutex
NewRWMutex == [readers |-> 0, writers |-> 0, readWaiters |-> 0, writeWaiters |-> 0,
               gs |-> [p \in Procs |-> NewG]]

\* the transactions an MVCCManager begins, and the calls each of them makes
MaxMvTx == 2
MaxMvOps == 2
\* keys (of one table) and data; Nil is the nil interface value
MvKeys == {"k1", "k2"}
MvData == {"a", "b"}
Nil == "nil"

NoMvCall == [op |-> "", tx |-> 0, key |-> "", ret |-> Nil, err |-> ""]

\* NewMVCCManager; now is the last value of time.Now(); hist is history:
\* every Version that applyWrites has made
NewMVCCManager == [versions |-> <<>>, transactions |-> <<>>, nextVersion |-> 1,
                   nextTxID |-> 1, now |-> 0, hist |-> {}, last |-> NoMvCall]

\* the free list before it has a page: head 0; pages maps a page number to
\* the list node written there, top is the number of pages of the file, err
\* is the assertion that has failed, call is the last call of Update and n
\* the number of calls
NoListCall == [popn |-> 0, nfreed |-> 0]

NoList == [head |-> 0, pages |-> <<>>, top |-> 1, err |-> "", call |-> NoListCall, n |-> 0]

\* the transactions a TransactionManager begins and the tables they lock
MaxTmTx == 2
TmTxs == 1..MaxTmTx
TmTables == {"users", "orders"}
\* isolation levels: without validation, with validation, and one that is
\* not a level
TmLevels == {"ReadUncommitted", "Serializable", "unknown"}

\* a Transaction: mu is true while tx.mu is locked; pc tells where the
\* goroutine that uses the transaction is (idle: in no call; commit, abort:
\* in releaseLocks of that call) and ret what its last call returned
NoTransaction == [status |-> "none", isolation |-> "", locks |-> {}, mu |-> FALSE,
                  pc |-> "idle", ret |-> ""]

\* NewTransactionManager
NoManager == [transactions |-> [t \in TmTxs |-> NoTransaction], nextID |-> 1]

\* the transactions and tables of an IsolationManager and the calls made
MaxImOps == 5
ImTxs == {1, 2}
ImTables == {"users", "orders"}
ImLevels == {"ReadUncommitted", "ReadCommitted", "RepeatableRead", "Serializable"}

NoImCall == [op |-> "", tx |-> 0, table |-> "", isolation |-> "", ret |-> 0, err |-> ""]

\* NewIsolationManager; a table that versionMap does not hold has version 0;
\* n counts the calls
NoIsolation == [versionMap |-> [table \in ImTables |-> 0], readVersions |-> <<>>,
                writeVersions |-> <<>>, last |-> NoImCall, n |-> 0]

\* mmapInit: the size of the first mapping of a file of size bytes
RECURSIVE mmapInit(_, _)
mmapInit(mmapSize, size) ==
    IF mmapSize < size THEN mmapInit(mmapSize * 2, size) ELSE mmapSize

\* KV.Open on a new file: file is the size of the file in pages (it is
\* always a multiple of the page size), total the size of the mappings in
\* bytes, a chunk the size of a mapping and whether it can be written,
\* temp the number of pages in page.temp; panic, err and wrote tell how the
\* last Set ended and n counts them
NewPager == [file |-> 0, total |-> mmapInit(64 * (2^20), 0),
             chunks |-> <<[len |-> mmapInit(64 * (2^20), 0), rw |-> TRUE]>>,
             flushed |-> 0, temp |-> 0, panic |-> "", err |-> "", wrote |-> FALSE,
             n |-> 0]

\* none of them is in use
NoLocks == rw = NewRWMutex /\ mv = NewMVCCManager /\ flist = NoList /\ tm = NoManager /\ im = NoIsolation
           /\ pager = NewPager

\* the last call of the disk store and its result
NoDiskCall == [op |-> "", key |-> EmptyBytes, val |-> EmptyBytes, mode |-> 0,
               ret |-> FALSE, err |-> "", io |-> <<>>]

\* &disk.KV{Path: path}, and what the last Close left (history)
NewKV(file) ==
    [open |-> FALSE, crashed |-> "", root |-> 0, flushed |-> 0, nfree |-> 0,
     nappend |-> 0, nilmap |-> TRUE, updates |-> <<>>, free |-> NoFreeList,
     file |-> file, last |-> NoDiskCall, closed |-> <<>>]

BigKey(i) == <<i, BTREE_MAX_KEY_SIZE>>
BigVal == <<1, BTREE_MAX_VAL_SIZE>>
SmallVal == <<2, 1>>

\* inputs of the harness
CKeys == {EmptyBytes} \cup {BigKey(i) : i \in 1..NumKeys}
CVals == {BigVal, SmallVal}
\* inputs of the iterator runs: enough 1000-byte keys to split the root
IterKeys == {EmptyBytes} \cup {BigKey(i) : i \in 1..NumBigKeys}
IterVals == {BigVal}

NoIter == [on |-> FALSE, path |-> <<>>, pos |-> <<>>]
NoCall == [op |-> "", key |-> EmptyBytes, val |-> EmptyBytes, ret |-> FALSE]

MemSt == [kind |-> "mem", pages |-> pages, nappend |-> 0, flushed |-> 0,
          disk |-> <<>>, panic |-> "", calls |-> 0]

\* newC()
newC ==
    /\ root = 0
    /\ pages = <<>>
    /\ ref = <<>>
    /\ panicked = ""
    /\ last = NoCall
    /\ iter = NoIter

\* C.add
add(key, val) ==
    /\ panicked = ""
    /\ \E r \in {Insert(MemSt, root, key, val)} :
           /\ root' = r.root
           /\ pages' = r.st.pages
           /\ panicked' = r.st.panic
           /\ ref' = IF r.st.panic = "" THEN Put(ref, key, val) ELSE ref
           /\ last' = [op |-> "Insert", key |-> key, val |-> val, ret |-> r.err = ""]
    /\ iter' = NoIter
    /\ UNCHANGED txvars
    /\ UNCHANGED <<dvars, lvars>>

\* C.del
del(key) ==
    /\ panicked = ""
    /\ \E r \in {Delete(MemSt, root, key)} :
           /\ root' = r.root
           /\ pages' = r.st.pages
           /\ panicked' = r.st.panic
           /\ ref' = IF r.ret THEN Drop(ref, key) ELSE ref
           /\ last' = [op |-> "Delete", key |-> key, val |-> EmptyBytes, ret |-> r.ret]
    /\ iter' = NoIter
    /\ UNCHANGED txvars
    /\ UNCHANGED <<dvars, lvars>>

\* tree.Update(key, val, mode) on the harness tree
update(key, val, mode) ==
    /\ panicked = ""
    /\ \E r \in {BTree_Update(MemSt, root, key, val, mode)} :
           /\ root' = r.root
           /\ pages' = r.st.pages
           /\ panicked' = r.st.panic
           /\ ref' = IF r.st.panic = "" /\ r.ret /\ r.err = "" THEN Put(ref, key, val) ELSE ref
           /\ last' = [op |-> "Update", key |-> key, val |-> val, ret |-> r.ret,
                       mode |-> mode, err |-> r.err]
    /\ iter' = NoIter
    /\ UNCHANGED txvars
    /\ UNCHANGED <<dvars, lvars>>

\* tree.SeekLE(key) on the harness tree
seek(key) ==
    /\ panicked = ""
    /\ \E it \in {SeekLE(MemSt, root, key)} :
           /\ iter' = [on |-> TRUE, path |-> it.path, pos |-> it.pos]
           /\ panicked' = it.panic
    /\ last' = [op |-> "SeekLE", key |-> key, val |-> EmptyBytes, ret |-> FALSE]
    /\ UNCHANGED <<root, pages, ref>>
    /\ UNCHANGED txvars
    /\ UNCHANGED <<dvars, lvars>>

\* iter.Next() / iter.Prev() on a valid iterator; last.key is the key the
\* iterator was on before the call
step(forward) ==
    /\ panicked = ""
    /\ iter.on /\ Valid(iter)
    /\ Deref(iter).panic = ""
    /\ \E it \in {IF forward THEN Next(MemSt, iter @@ [panic |-> ""])
                               ELSE Prev(MemSt, iter @@ [panic |-> ""])} :
           /\ iter' = [on |-> TRUE, path |-> it.path, pos |-> it.pos]
           /\ panicked' = IF it.panic # "" THEN it.panic
                          ELSE Deref(it).panic
    /\ last' = [op |-> IF forward THEN "Next" ELSE "Prev", key |-> Deref(iter).key,
                val |-> EmptyBytes, ret |-> FALSE]
    /\ UNCHANGED <<root, pages, ref>>
    /\ UNCHANGED txvars
    /\ UNCHANGED <<dvars, lvars>>

Add == \E k \in CKeys, v \in CVals : add(k, v)
Del == \E k \in CKeys : del(k)

IterAdd == \E k \in IterKeys \ {EmptyBytes}, v \in IterVals : add(k, v)
IterSeek == \E k \in IterKeys : seek(k)
IterNext == step(TRUE)
IterPrev == step(FALSE)

\* inputs around the size limits: keys of 1, 1000 and 1001 bytes, values of
\* 1, 3000 and 3001 bytes
LimitKeys == {<<1, 1>>, <<2, BTREE_MAX_KEY_SIZE>>, <<3, BTREE_MAX_KEY_SIZE + 1>>}
LimitVals == {<<1, 1>>, <<1, BTREE_MAX_VAL_SIZE>>, <<1, BTREE_MAX_VAL_SIZE + 1>>}

LimitAdd == \E k \in LimitKeys, v \in LimitVals : add(k, v)
LimitDel == \E k \in LimitKeys : del(k)

NextC == Add \/ Del

NextLimit == LimitAdd \/ LimitDel

\* MODE_UPSERT, MODE_UPDATE_ONLY, MODE_INSERT_ONLY, and an invalid mode
Modes == 0..3

Upd == \E k \in CKeys, v \in CVals, m \in Modes : update(k, v, m)

NextIter == IterAdd \/ IterSeek \/ IterNext \/ IterPrev

----------------------------------------------------------------------------
(* The transactional KV: readers                                           *)

Writers == 1..NumWriters
Readers == 1..NumReaders

\* the keys and values of the transactions: one byte each
TxKey(i) == <<i, 1>>
TxKeys == {TxKey(i) : i \in 1..NumKeys}
TxVal == <<1, 1>>
TxVals == {TxVal}
\* a key and a value over the size limits, for the puts
TxLongKey == <<1, BTREE_MAX_KEY_SIZE + 1>>
TxLongVal == <<1, BTREE_MAX_VAL_SIZE + 1>>
TxPutKeys == TxKeys \cup {TxLongKey}
TxPutVals == TxVals \cup {TxLongVal}
\* FreeListData{}
NoFree == [head |-> 0, nodes |-> <<>>, total |-> 0, offset |-> 0]

\* KVReader{}; seen and during are history: what the reader read at BeginRead,
\* and the writer that held the writer mutex then (0: none)
NoReader == [on |-> FALSE, version |-> 0, root |-> 0, index |-> -1, seen |-> <<>>,
             during |-> 0]

\* the tree of the KV, and the copy of it a reader holds, read the mapped file
MapSt == [kind |-> "map", pages |-> <<>>, nappend |-> 0, flushed |-> 0,
          disk |-> mmap, panic |-> "", calls |-> 0]

\* a reader that would follow the tree of the KV instead of its own copy
KVReader_Get_live(r, key) == Get(MapSt, kv.root, key)

\* KVReader.Get
KVReader_Get(r, key) == Get(MapSt, rds[r].root, key)

\* what a reader reads: the result of Get for every key
ReaderView(r) == [k \in TxKeys |-> KVReader_Get(r, k)]
\* what a reader that begins now would read
KVView == [k \in TxKeys |-> Get(MapSt, kv.root, k)]

\* ReaderList as heap.Interface; h is [list, rd]: the slice and the readers
ReaderList_Less(h, i, j) == h.rd[h.list[i + 1]].version < h.rd[h.list[j + 1]].version

ReaderList_Swap(h, i, j) ==
    [list |-> [h.list EXCEPT ![i + 1] = h.list[j + 1], ![j + 1] = h.list[i + 1]],
     rd |-> [h.rd EXCEPT ![h.list[j + 1]].index = i, ![h.list[i + 1]].index = j]]

ReaderList_Push(h, r) ==
    [list |-> Append(h.list, r), rd |-> [h.rd EXCEPT ![r].index = Len(h.list)]]

ReaderList_Pop(h) ==
    [list |-> SubSeq(h.list, 1, Len(h.list) - 1),
     rd |-> [h.rd EXCEPT ![h.list[Len(h.list)]].index = -1]]

\* container/heap: up, down, Push, Remove
RECURSIVE heap_up(_, _)
heap_up(h, j) ==
    With(IF j = 0 THEN 0 ELSE (j - 1) \div 2, LAMBDA i :
    IF i = j \/ ~ReaderList_Less(h, j, i) THEN h
    ELSE heap_up(ReaderList_Swap(h, i, j), i))

\* [h, moved]
RECURSIVE heap_down(_, _, _, _)
heap_down(h, i0, i, n) ==
    With(2 * i + 1, LAMBDA j1 :
    IF j1 >= n THEN [h |-> h, moved |-> i > i0]
    ELSE With(IF j1 + 1 < n /\ ReaderList_Less(h, j1 + 1, j1) THEN j1 + 1 ELSE j1, LAMBDA j :
         IF ~ReaderList_Less(h, j, i) THEN [h |-> h, moved |-> i > i0]
         ELSE heap_down(ReaderList_Swap(h, i, j), i0, j, n)))

heap_Push(h, r) == heap_up(ReaderList_Push(h, r), Len(h.list))

\* a heap.Remove that would not restore the order
heap_Remove_last(h, i) ==
    With(Len(h.list) - 1, LAMBDA n :
    IF n # i THEN ReaderList_Pop(ReaderList_Swap(h, i, n)) ELSE ReaderList_Pop(h))

heap_Remove(h, i) ==
    With(Len(h.list) - 1, LAMBDA n :
    IF n # i
    THEN With(heap_down(ReaderList_Swap(h, i, n), i, i, n), LAMBDA d :
         ReaderList_Pop(IF d.moved THEN d.h ELSE heap_up(d.h, i)))
    ELSE ReaderList_Pop(h))

\* a BeginRead that would wait for the writer mutex
BeginRead_locked(r) ==
    /\ crashed = ""
    /\ ~rds[r].on
    /\ kv.writer = 0
    /\ \E h \in {heap_Push([list |-> kv.readers,
                            rd |-> [rds EXCEPT ![r] = [on |-> TRUE, version |-> kv.version,
                                                       root |-> kv.root, index |-> -1,
                                                       seen |-> KVView,
                                                       during |-> kv.writer]]],
                           r)} :
           /\ kv' = [kv EXCEPT !.readers = h.list]
           /\ rds' = h.rd
    /\ UNCHANGED <<mmap, txs, crashed, guarded>>
    /\ UNCHANGED cvars
    /\ UNCHANGED <<dvars, lvars>>

\* KV.BeginRead
BeginRead(r) ==
    /\ crashed = ""
    /\ ~rds[r].on
    /\ \E h \in {heap_Push([list |-> kv.readers,
                            rd |-> [rds EXCEPT ![r] = [on |-> TRUE, version |-> kv.version,
                                                       root |-> kv.root, index |-> -1,
                                                       seen |-> KVView,
                                                       during |-> kv.writer]]],
                           r)} :
           /\ kv' = [kv EXCEPT !.readers = h.list]
           /\ rds' = h.rd
    /\ UNCHANGED <<mmap, txs, crashed, guarded>>
    /\ UNCHANGED cvars
    /\ UNCHANGED <<dvars, lvars>>

\* KV.EndRead
EndRead(r) ==
    /\ crashed = ""
    /\ rds[r].on
    /\ \E h \in {heap_Remove([list |-> kv.readers, rd |-> rds], rds[r].index)} :
           /\ kv' = [kv EXCEPT !.readers = h.list]
           /\ rds' = [h.rd EXCEPT ![r] = NoReader]
    /\ guarded' = {g \in guarded : g[2] # r}
    /\ UNCHANGED <<mmap, txs, crashed>>
    /\ UNCHANGED cvars
    /\ UNCHANGED <<dvars, lvars>>

\* the runs of the reader list: readers begin and end while the version of
\* the KV takes any value between two calls
HeapReaders == 1..NumHeapReaders

AdvanceVersion(v) ==
    /\ crashed = ""
    /\ kv.version # v
    /\ kv' = [kv EXCEPT !.version = v]
    /\ UNCHANGED <<mmap, txs, rds, crashed, guarded>>
    /\ UNCHANGED cvars
    /\ UNCHANGED <<dvars, lvars>>

HeapBegin == \E r \in HeapReaders : BeginRead(r)
HeapEnd == \E r \in HeapReaders : EndRead(r)
HeapVersion == \E v \in 0..MaxVersion : AdvanceVersion(v)

NextReaders == HeapBegin \/ HeapEnd \/ HeapVersion

----------------------------------------------------------------------------
(* The transactional KV: write transactions                                *)

\* KVTX{}; start, res and io are history: the KV at Begin, how the last
\* transaction of this writer ended, and the calls its Commit made
NoStart == [root |-> 0, version |-> 0, free |-> NoFree, flushed |-> 0, view |-> <<>>]

NoTx == [pc |-> "idle", version |-> 0, root |-> 0,
         free |-> [data |-> NoFree, version |-> 0, minReader |-> 0],
         nappend |-> 0, updates |-> <<>>, nops |-> 0, ret |-> FALSE, err |-> "",
         start |-> NoStart, res |-> "", io |-> <<>>]

\* the pager of the transaction's tree: tx.pageGet, tx.pageNew, tx.pageDel
TxSt(w) == [kind |-> "tx", pages |-> txs[w].updates, nappend |-> txs[w].nappend,
            flushed |-> kv.flushed, disk |-> mmap, panic |-> "", calls |-> 0]

\* a Begin that would not wait for the writer mutex
Begin_unlocked(w) ==
    /\ crashed = ""
    /\ txs[w].pc = "idle"
    /\ kv' = [kv EXCEPT !.writer = w]
    /\ txs' = [txs EXCEPT ![w] =
                   [NoTx EXCEPT !.pc = "active",
                                !.version = kv.version,
                                !.root = kv.root,
                                !.free = [data |-> kv.free, version |-> kv.version,
                                          minReader |-> IF Len(kv.readers) > 0
                                                        THEN rds[kv.readers[1]].version
                                                        ELSE kv.version],
                                !.start = [root |-> kv.root, version |-> kv.version,
                                           free |-> kv.free, flushed |-> kv.flushed,
                                           view |-> KVView]]]
    /\ UNCHANGED <<mmap, rds, crashed, guarded>>
    /\ UNCHANGED cvars
    /\ UNCHANGED <<dvars, lvars>>

\* Begin
Begin(w) ==
    /\ crashed = ""
    /\ txs[w].pc = "idle"
    /\ kv.writer = 0
    /\ kv' = [kv EXCEPT !.writer = w]
    /\ txs' = [txs EXCEPT ![w] =
                   [NoTx EXCEPT !.pc = "active",
                                !.version = kv.version,
                                !.root = kv.root,
                                !.free = [data |-> kv.free, version |-> kv.version,
                                          minReader |-> IF Len(kv.readers) > 0
                                                        THEN rds[kv.readers[1]].version
                                                        ELSE kv.version],
                                !.start = [root |-> kv.root, version |-> kv.version,
                                           free |-> kv.free, flushed |-> kv.flushed,
                                           view |-> KVView]]]
    /\ UNCHANGED <<mmap, rds, crashed, guarded>>
    /\ UNCHANGED cvars
    /\ UNCHANGED <<dvars, lvars>>

\* KVTX.Update: [st, root, ret, err]
KVTX_Update(st, troot, key, val, mode) ==
    IF mode \notin 0..2
    THEN [st |-> st, root |-> troot, ret |-> FALSE, err |-> "invalid mode"]
    ELSE With(IF mode = 0 THEN [found |-> TRUE, panic |-> ""] ELSE Get(st, troot, key),
              LAMBDA g :
         IF g.panic # ""
         THEN [st |-> Panic(st, g.panic), root |-> troot, ret |-> FALSE, err |-> ""]
         ELSE IF mode = 0 \/ (mode = 1 /\ g.found) \/ (mode = 2 /\ ~g.found)
         THEN With(Insert(st, troot, key, val), LAMBDA r :
              [st |-> r.st, root |-> r.root, ret |-> TRUE, err |-> ""])
         ELSE [st |-> st, root |-> troot, ret |-> FALSE, err |-> ""])

\* KVTX.Del: [st, root, ret, err]
KVTX_Del(st, troot, key) ==
    With(Delete(st, troot, key), LAMBDA r :
    [st |-> r.st, root |-> r.root, ret |-> r.ret, err |-> ""])

\* the transaction after a call that returned r
TxApply(w, r) ==
    /\ txs' = [txs EXCEPT ![w].root = r.root,
                          ![w].updates = r.st.pages,
                          ![w].nappend = r.st.nappend,
                          ![w].nops = @ + 1,
                          ![w].ret = r.ret,
                          ![w].err = r.err]
    /\ crashed' = r.st.panic
    /\ UNCHANGED <<kv, mmap, rds, guarded>>
    /\ UNCHANGED cvars
    /\ UNCHANGED <<dvars, lvars>>

TxCanRun(w) ==
    /\ crashed = ""
    /\ txs[w].pc = "active"
    /\ txs[w].nops < MaxTxOps
    /\ kv.flushed + txs[w].nappend < MaxPage

TxUpdate(w, key, val, mode) ==
    /\ TxCanRun(w)
    /\ \E r \in {KVTX_Update(TxSt(w), txs[w].root, key, val, mode)} : TxApply(w, r)

TxDel(w, key) ==
    /\ TxCanRun(w)
    /\ \E r \in {KVTX_Del(TxSt(w), txs[w].root, key)} : TxApply(w, r)

\* the calls of Commit, in their order: none when the root is unchanged
\* (lines 63-65); up to the failed Sync (lines 67-76); all of lines 67-94
CommitIO(res) ==
    CASE res = "rollback" -> <<"FlushPages", "Sync: error">>
      [] res \in {"ok", "fsync2"} ->
             <<"FlushPages", "Sync", "mu.Lock", "SetRoot", "mu.Unlock", "StoreMaster",
               IF res = "ok" THEN "Sync" ELSE "Sync: error">>
      [] OTHER -> <<>>

\* the transaction object once Commit or Abort has returned
TxEnded(w, res, err) ==
    [NoTx EXCEPT !.nops = txs[w].nops, !.res = res, !.err = err, !.io = CommitIO(res)]

\* Commit, when the root is the one of the KV (lines 62-65)
CommitNoUpdates(w) ==
    /\ crashed = ""
    /\ txs[w].pc = "active"
    /\ kv.root = txs[w].root
    /\ kv' = [kv EXCEPT !.writer = 0]
    /\ txs' = [txs EXCEPT ![w] = TxEnded(w, "nochange", "")]
    /\ UNCHANGED <<mmap, rds, crashed, guarded>>
    /\ UNCHANGED cvars
    /\ UNCHANGED <<dvars, lvars>>

\* rollbackTX
rollbackTX(w) == [kv EXCEPT !.root = txs[w].root, !.flushed = 0]

\* Commit, when the first Sync fails (FlushPages returns nil): lines 62-76
CommitRollback(w) ==
    /\ crashed = ""
    /\ txs[w].pc = "active"
    /\ kv.root # txs[w].root
    /\ kv' = [rollbackTX(w) EXCEPT !.writer = 0]
    /\ txs' = [txs EXCEPT ![w] = TxEnded(w, "rollback", "fsync")]
    /\ UNCHANGED <<mmap, rds, crashed, guarded>>
    /\ UNCHANGED cvars
    /\ UNCHANGED <<dvars, lvars>>

\* the pages the transaction deallocated: the nil entries of page.updates
TxFreed(w) == {p \in DOMAIN txs[w].updates : txs[w].updates[p] = NilPage}
\* the pages the transaction allocated and still uses
TxAllocated(w) == {p \in DOMAIN txs[w].updates : txs[w].updates[p] # NilPage}

\* Commit, when the first Sync succeeds: lines 62-94; ok is the result of
\* the second Sync (StoreMaster returns nil)
CommitPublish(w, ok) ==
    /\ crashed = ""
    /\ txs[w].pc = "active"
    /\ kv.root # txs[w].root
    /\ kv' = [kv EXCEPT !.flushed = kv.flushed + txs[w].nappend,
                        !.free = txs[w].free.data,
                        !.root = txs[w].root,
                        !.writer = 0]
    /\ txs' = [txs EXCEPT ![w] = TxEnded(w, IF ok THEN "ok" ELSE "fsync2",
                                         IF ok THEN "" ELSE "fsync")]
    /\ guarded' = guarded \cup (TxFreed(w) \X {r \in Readers : rds[r].on})
    /\ UNCHANGED <<mmap, rds, crashed>>
    /\ UNCHANGED cvars
    /\ UNCHANGED <<dvars, lvars>>

Commit(w) ==
    \/ CommitNoUpdates(w)
    \/ CommitRollback(w)
    \/ \E ok \in BOOLEAN : CommitPublish(w, ok)

\* an Abort that would call rollbackTX as a failed Commit does
Abort_rollback(w) ==
    /\ crashed = ""
    /\ txs[w].pc = "active"
    /\ kv' = [rollbackTX(w) EXCEPT !.writer = 0]
    /\ txs' = [txs EXCEPT ![w] = TxEnded(w, "aborted", "")]
    /\ UNCHANGED <<mmap, rds, crashed, guarded>>
    /\ UNCHANGED cvars
    /\ UNCHANGED <<dvars, lvars>>

\* Abort
Abort(w) ==
    /\ crashed = ""
    /\ txs[w].pc = "active"
    /\ kv' = [kv EXCEPT !.writer = 0]
    /\ txs' = [txs EXCEPT ![w] = TxEnded(w, "aborted", "")]
    /\ UNCHANGED <<mmap, rds, crashed, guarded>>
    /\ UNCHANGED cvars
    /\ UNCHANGED <<dvars, lvars>>

----------------------------------------------------------------------------
(* Specifications *)

\* a database file as Open finds it: new; or holding one committed leaf; or
\* holding, after the committed pages, the page of a commit that was
\* interrupted before its master page was written
Leaf(k, v) == BNode(BNODE_LEAF, <<Item(EmptyBytes, EmptyBytes, 0), Item(k, v, 0)>>)

Files == {"new", "one leaf", "one leaf and a stale page"}

\* a file whose free list holds one page: page 2 is the node of the list,
\* page 3 the free page
FreeFile == "one leaf and a free page"
OneFree == [head |-> 2, nodes |-> <<2>>, total |-> 1, offset |-> 0]

Open(file) ==
    /\ mmap = IF file = "new" THEN <<>>
              ELSE IF file = "one leaf" THEN <<Leaf(TxKey(1), TxVal)>>
              ELSE IF file = FreeFile THEN <<Leaf(TxKey(1), TxVal), ZeroPage, ZeroPage>>
              ELSE <<Leaf(TxKey(1), TxVal), Leaf(TxKey(2), TxVal)>>
    /\ kv = [root |-> IF file = "new" THEN 0 ELSE 1,
             flushed |-> IF file = "new" THEN 1 ELSE IF file = FreeFile THEN 4 ELSE 2,
             version |-> IF file = "new" THEN 0 ELSE 1,
             free |-> IF file = FreeFile THEN OneFree ELSE NoFree,
             readers |-> <<>>, writer |-> 0]
    /\ txs = [w \in Writers |-> NoTx]
    /\ rds = [r \in Readers |-> NoReader]
    /\ crashed = ""
    /\ guarded = {}

\* no disk store is in use
NoDisk == db = NewKV(<<>>)

InitC == newC /\ Open("new") /\ NoDisk /\ NoLocks

SpecC == InitC /\ [][NextC]_vars

SpecIter == InitC /\ [][NextIter]_vars

SpecLimit == InitC /\ [][NextLimit]_vars

\* inputs that split a leaf in three: 1000-byte keys with values of 3000,
\* 1000 and 1 bytes
MidVal == <<3, 1000>>
SplitKeys == {BigKey(i) : i \in 1..NumSplitKeys}
SplitVals == {BigVal, MidVal, SmallVal}

SplitAdd == \E k \in SplitKeys, v \in SplitVals : add(k, v)
SplitDel == \E k \in SplitKeys : del(k)

NextSplit == SplitAdd \/ SplitDel

SpecSplit == InitC /\ [][NextSplit]_vars

\* inputs that build a tree of three levels: one 3000-byte value under
\* enough 1000-byte keys to split the root twice; a key is inserted when it
\* is smaller than every key of the tree, and any key is deleted
DeepKeys == {BigKey(i) : i \in 1..NumDeepKeys}

DeepAdd ==
    \E k \in DeepKeys :
        /\ \A x \in DOMAIN ref : BytesCompare(k, x) < 0
        /\ add(k, BigVal)
DeepDel == \E k \in DeepKeys : del(k)

NextDeep == DeepAdd \/ DeepDel

SpecDeep == InitC /\ [][NextDeep]_vars

InitTx == newC /\ NoDisk /\ NoLocks /\ \E file \in Files : Open(file)

NextTx ==
    \/ \E w \in Writers : Begin(w)
    \/ \E w \in Writers, k \in TxPutKeys, v \in TxPutVals, m \in Modes : TxUpdate(w, k, v, m)
    \/ \E w \in Writers, k \in TxKeys : TxDel(w, k)
    \/ \E w \in Writers : Commit(w)
    \/ \E w \in Writers : Abort(w)
    \/ \E r \in Readers : BeginRead(r)
    \/ \E r \in Readers : EndRead(r)

SpecTx == InitTx /\ [][NextTx]_vars

\* a new KV with the readers of the runs of the reader list
InitReaders ==
    /\ newC /\ NoDisk /\ NoLocks
    /\ mmap = <<>>
    /\ kv = [root |-> 0, flushed |-> 1, version |-> 0, free |-> NoFree,
             readers |-> <<>>, writer |-> 0]
    /\ txs = [w \in Writers |-> NoTx]
    /\ rds = [r \in HeapReaders |-> NoReader]
    /\ crashed = ""
    /\ guarded = {}

SpecReaders == InitReaders /\ [][NextReaders]_vars

\* the transactions on a file whose free list holds a page
InitFree == newC /\ NoDisk /\ NoLocks /\ Open(FreeFile)

SpecFree == InitFree /\ [][NextTx]_vars

\* Update in its two places, one at a time: calls of BTree.Update (and
\* Delete) on the harness tree while no transaction has begun (and the KV is
\* the one of a new file), or write transactions while the harness tree is
\* untouched
NoTxYet == kv.root = 0 /\ \A w \in Writers : txs[w] = NoTx
NoCallYet == last = NoCall

NextUpdate ==
    \/ NoTxYet /\ Upd
    \/ NoTxYet /\ Del
    \/ NoCallYet /\ \E w \in Writers : Begin(w)
    \/ NoCallYet /\ \E w \in Writers, k \in TxKeys, v \in TxVals, m \in Modes :
                         TxUpdate(w, k, v, m)
    \/ NoCallYet /\ \E w \in Writers, k \in TxKeys : TxDel(w, k)
    \/ NoCallYet /\ \E w \in Writers : Commit(w)

SpecUpdate == InitTx /\ [][NextUpdate]_vars

----------------------------------------------------------------------------
(* The disk store *)

\* a master page as the documented format has it: | sig | root_ptr | page_used |
MasterPage(r, used) == [btype |-> 0, items |-> <<>>, root |-> r, used |-> used]

\* a database file as Open finds it: new and empty; or the master page and
\* one committed leaf
DiskFiles == {"new", "one leaf"}
DiskFile(name) ==
    IF name = "new" THEN <<>>
    ELSE Put(Put(<<>>, 0, MasterPage(1, 2)), 1, Leaf(TxKey(1), TxVal))

\* the pager of the store's tree: db.pageGet, db.pageNew, db.pageDel
DiskSt == [kind |-> "disk", pages |-> db.updates, nilmap |-> db.nilmap,
           nappend |-> db.nappend, flushed |-> db.flushed, nfree |-> db.nfree,
           free |-> db.free, disk |-> db.file, panic |-> "", calls |-> 0]

\* the orders in which a range over a map can visit the keys S
Orders(S) == {f \in [1..Cardinality(S) -> S] : \A i, j \in DOMAIN f : f[i] = f[j] => i = j}

\* extendFile: the number of pages of the file after it
RECURSIVE grow(_, _)
grow(filePages, npages) ==
    IF filePages >= npages THEN filePages
    ELSE grow(filePages + (IF filePages \div 8 < 1 THEN 1 ELSE filePages \div 8), npages)

extendFile(file, npages) ==
    [x \in 0..(grow(Cardinality(DOMAIN file), npages) - 1) |->
        IF x \in DOMAIN file THEN file[x] ELSE ZeroPage]

\* writePages: the outcomes [st, err]; Fallocate can fail when the file has
\* to grow; a copy to a page beyond the end of the file faults after any of
\* the other dirty pages have been copied
writePages(st) ==
    LET nil   == {p \in DOMAIN st.pages : st.pages[p] = NilPage}
        dirty == DOMAIN st.pages \ nil
    IN  UNION {
          With(FreeList_Update(st.free, st.nfree, freed), LAMBDA fl :
          With(st.flushed + FreeList_Total(fl), LAMBDA npages :
          With(extendFile(st.disk, npages), LAMBDA file :
            (IF DOMAIN file # DOMAIN st.disk
             THEN {[st |-> [st EXCEPT !.free = fl], err |-> "fallocate"]}
             ELSE {})
            \cup
            (IF dirty \subseteq DOMAIN file
             THEN {[st |-> [st EXCEPT !.free = fl,
                                      !.disk = [x \in DOMAIN file |->
                                                  IF x \in dirty THEN st.pages[x] ELSE file[x]]],
                    err |-> ""]}
             ELSE {[st |-> Panic([st EXCEPT !.free = fl,
                                            !.disk = [x \in DOMAIN file |->
                                                        IF x \in done THEN st.pages[x] ELSE file[x]]],
                                 "SIGBUS"),
                    err |-> ""] : done \in SUBSET (dirty \cap DOMAIN file)}))))
          : freed \in Orders(nil)}

\* syncPages: the outcomes [st, err, io]; each Sync can fail
syncPages(st) ==
    {[st |-> st, err |-> "fsync", io |-> <<"writePages", "Sync: error">>]}
    \cup
    {[st |-> [st EXCEPT !.flushed = st.flushed + FreeList_Total(st.free),
                        !.nfree = 0, !.nappend = 0],
      err |-> IF ok THEN "" ELSE "fsync",
      io |-> <<"writePages", "Sync", "masterStore", IF ok THEN "Sync" ELSE "Sync: error">>]
     : ok \in BOOLEAN}

\* flushPages
flushPages(st) ==
    UNION {IF w.st.panic # "" THEN {[st |-> w.st, err |-> "", io |-> <<"writePages: fault">>]}
           ELSE IF w.err # "" THEN {[st |-> w.st, err |-> w.err, io |-> <<"writePages: error">>]}
           ELSE syncPages(w.st)
           : w \in writePages(st)}

\* the process dies: the file stays as it is on disk
Crashed(msg, file, call) ==
    [NewKV(file) EXCEPT !.crashed = msg, !.last = call]

\* the store after a call that changed the tree to root r and then flushed
\* with outcome o
Flushed(r, o, call) ==
    IF o.st.panic # "" THEN Crashed(o.st.panic, o.st.disk, call)
    ELSE [db EXCEPT !.root = r, !.flushed = o.st.flushed, !.nfree = o.st.nfree,
                    !.nappend = o.st.nappend, !.updates = o.st.pages,
                    !.free = o.st.free, !.file = o.st.disk,
                    !.last = [call EXCEPT !.err = o.err, !.io = o.io]]

\* KV.Open, on a new KV value or (after Close) on the same one; masterLoad
\* makes page.updates when the file is empty and reads nothing
KV_Open(fresh) ==
    /\ ~db.open
    /\ db.crashed # "" => fresh
    /\ db' = [(IF fresh THEN [NewKV(db.file) EXCEPT !.closed = db.closed] ELSE db)
               EXCEPT !.open = TRUE, !.crashed = "",
                      !.nilmap = IF DOMAIN db.file = {} THEN FALSE
                                 ELSE IF fresh THEN TRUE ELSE db.nilmap,
                      !.updates = IF DOMAIN db.file = {} \/ fresh THEN <<>> ELSE db.updates,
                      !.last = [NoDiskCall EXCEPT !.op = "Open"]]
    /\ UNCHANGED <<cvars, txvars, lvars>>

\* KV.Get on every key: what a reader of the store sees
DiskView == [k \in TxKeys |-> Get(DiskSt, db.root, k).found]

\* KV.Close
KV_Close ==
    /\ db.open
    /\ db' = [db EXCEPT !.open = FALSE, !.closed = DiskView,
                        !.last = [NoDiskCall EXCEPT !.op = "Close"]]
    /\ UNCHANGED <<cvars, txvars, lvars>>

\* KV.Get
KV_Get(key) ==
    /\ db.open
    /\ \E g \in {Get(DiskSt, db.root, key)} :
         db' = IF g.panic # ""
               THEN Crashed(g.panic, db.file, [NoDiskCall EXCEPT !.op = "Get", !.key = key])
               ELSE [db EXCEPT !.last = [NoDiskCall EXCEPT !.op = "Get", !.key = key,
                                                           !.ret = g.found]]
    /\ UNCHANGED <<cvars, txvars, lvars>>

\* KV.Set: Insert's error is dropped
KV_Set(key, val) ==
    /\ db.open
    /\ \E call \in {[NoDiskCall EXCEPT !.op = "Set", !.key = key, !.val = val]} :
       \E ins \in {Insert(DiskSt, db.root, key, val)} :
         IF ins.st.panic # "" THEN db' = Crashed(ins.st.panic, db.file, call)
         ELSE \E o \in flushPages(ins.st) : db' = Flushed(ins.root, o, call)
    /\ UNCHANGED <<cvars, txvars, lvars>>

\* KV.Del
KV_Del(key) ==
    /\ db.open
    /\ \E d \in {Delete(DiskSt, db.root, key)} :
       \E call \in {[NoDiskCall EXCEPT !.op = "Del", !.key = key, !.ret = d.ret]} :
         IF d.st.panic # "" THEN db' = Crashed(d.st.panic, db.file, call)
         ELSE \E o \in flushPages(d.st) : db' = Flushed(d.root, o, call)
    /\ UNCHANGED <<cvars, txvars, lvars>>

\* KV.Update
KV_Update(key, val, mode) ==
    /\ db.open
    /\ \E call \in {[NoDiskCall EXCEPT !.op = "Update", !.key = key, !.val = val,
                                     !.mode = mode]} :
       \E g \in {Get(DiskSt, db.root, key)} :
         IF mode \notin {0, 1, 2}
         THEN db' = [db EXCEPT !.last = [call EXCEPT !.err = "invalid mode"]]
         ELSE IF mode # 0 /\ g.panic # "" THEN db' = Crashed(g.panic, db.file, call)
         ELSE IF (mode = 1 /\ ~g.found) \/ (mode = 2 /\ g.found)
         THEN db' = [db EXCEPT !.last = call]
         ELSE \E ins \in {Insert(DiskSt, db.root, key, val)} :
                IF ins.st.panic # "" THEN db' = Crashed(ins.st.panic, db.file, call)
                ELSE \E o \in flushPages(ins.st) :
                       db' = Flushed(ins.root, o, [call EXCEPT !.ret = TRUE])
    /\ UNCHANGED <<cvars, txvars, lvars>>

InitDisk ==
    /\ newC /\ Open("new") /\ NoLocks
    /\ \E name \in DiskFiles : db = [NewKV(DiskFile(name)) EXCEPT !.open = TRUE,
                                       !.nilmap = name # "new",
                                       !.last = [NoDiskCall EXCEPT !.op = "Open"]]

NextDisk ==
    \/ \E fresh \in BOOLEAN : KV_Open(fresh)
    \/ KV_Close
    \/ \E k \in TxPutKeys : KV_Get(k)
    \/ \E k \in TxPutKeys, v \in TxPutVals : KV_Set(k, v)
    \/ \E k \in TxPutKeys : KV_Del(k)
    \/ \E k \in TxPutKeys, v \in TxPutVals, m \in Modes : KV_Update(k, v, m)

SpecDisk == InitDisk /\ [][NextDisk]_vars



----------------------------------------------------------------------------
(* Observations of the harness tree *)

RECURSIVE ReachPtrs(_, _)
ReachPtrs(pgs, ptr) ==
    IF ptr \notin DOMAIN pgs THEN {}
    ELSE {ptr} \cup
         (IF btype(pgs[ptr]) = BNODE_NODE
          THEN UNION {ReachPtrs(pgs, pgs[ptr].items[i].ptr) : i \in 1..nkeys(pgs[ptr])}
          ELSE {})

\* the keys stored in the leaves of the tree
StoredKeys ==
    UNION {{pages[p].items[i].key : i \in 1..nkeys(pages[p])} :
           p \in {q \in ReachPtrs(pages, root) : btype(pages[q]) = BNODE_LEAF}}

TreeGetIn(r, pgs, key) == Get([MemSt EXCEPT !.pages = pgs], r, key)
TreeGet(key) == TreeGetIn(root, pages, key)

----------------------------------------------------------------------------
(* Claims about the B+-tree *)

\* C1: after any sequence of Insert and Delete calls, Get(k) returns
\* (v, true) for every key k whose most recent operation was Insert(k, v),
\* that is, for every entry of the reference map.
C1_GetAgreesWithRef ==
    panicked = "" =>
        \A k \in DOMAIN ref :
            /\ TreeGet(k).panic = ""
            /\ TreeGet(k).found
            /\ TreeGet(k).val = ref[k]

\* C2: Delete(k) returns true exactly when k was present (in the reference
\* map) before the call; right after a Delete(k), Get(k) reports absent and
\* every other key has the Get result it had before the Delete.
C2_DeleteRemovesOnlyItsKey ==
    [][(last'.op = "Delete" /\ panicked' = "") =>
           /\ last'.ret = (last'.key \in DOMAIN ref)
           /\ ~TreeGetIn(root', pages', last'.key).found
           /\ \A k \in CKeys \ {last'.key} :
                  TreeGetIn(root', pages', k) = TreeGet(k)]_vars

StrictlyIncreasing(node) ==
    \A i \in 1..(nkeys(node) - 1) :
        BytesCompare(node.items[i].key, node.items[i + 1].key) < 0

NodeOK(node) ==
    /\ nbytes(node) <= BTREE_PAGE_SIZE
    /\ StrictlyIncreasing(node)
    /\ \A i \in 1..nkeys(node) :
           /\ BLen(node.items[i].key) <= BTREE_MAX_KEY_SIZE
           /\ BLen(node.items[i].val) <= BTREE_MAX_VAL_SIZE

\* C7: every node reachable from the root is at most one page, has
\* strictly increasing keys, and holds only keys of at most 1000 bytes and
\* values of at most 3000 bytes.
C7_NodesWellFormed ==
    panicked = "" => \A p \in ReachPtrs(pages, root) : NodeOK(pages[p])

KeysLE(key) == {s \in StoredKeys : BytesCompare(s, key) <= 0}
KeysLT(key) == {s \in StoredKeys : BytesCompare(s, key) < 0}
KeysGT(key) == {s \in StoredKeys : BytesCompare(s, key) > 0}
MaxKey(S) == CHOOSE s \in S : \A t \in S : BytesCompare(t, s) <= 0
MinKey(S) == CHOOSE s \in S : \A t \in S : BytesCompare(s, t) <= 0

\* C8: SeekLE(k) positions the iterator on the greatest stored key <= k;
\* Next moves to the next larger stored key and never to a smaller key;
\* Prev moves to the next smaller stored key and never to a larger key.
C8_IteratorOrder ==
    (panicked = "" /\ iter.on) =>
        /\ (last.op = "SeekLE" /\ KeysLE(last.key) # {}) =>
               /\ Valid(iter)
               /\ Deref(iter).key = MaxKey(KeysLE(last.key))
        /\ last.op = "Next" =>
               /\ BytesCompare(Deref(iter).key, last.key) >= 0
               /\ KeysGT(last.key) # {} => Deref(iter).key = MinKey(KeysGT(last.key))
        /\ last.op = "Prev" =>
               /\ BytesCompare(Deref(iter).key, last.key) <= 0
               /\ KeysLT(last.key) # {} => Deref(iter).key = MaxKey(KeysLT(last.key))

TooLarge(key, val) == BLen(key) > BTREE_MAX_KEY_SIZE \/ BLen(val) > BTREE_MAX_VAL_SIZE

\* C13: Insert(key, val) returns an error exactly when the key is longer
\* than 1000 bytes or the value longer than 3000 bytes; an Insert that
\* returns an error has called none of get, new, del and leaves the root
\* and the pages as they were.
C13_InsertSizeLimit ==
    [][(last'.op = "Insert" /\ panicked = "" /\ panicked' = "") =>
           /\ last'.ret = ~TooLarge(last'.key, last'.val)
           /\ ~last'.ret =>
                  /\ Insert(MemSt, root, last'.key, last'.val).st.calls = 0
                  /\ root' = root
                  /\ pages' = pages]_vars

\* an Insert at exactly 1000 and 3000 bytes succeeded, and an Insert over
\* the limit failed on a tree that is not empty
C13_Witness ==
    /\ panicked = ""
    /\ last.op = "Insert" /\ ~last.ret /\ root # 0
    /\ TreeGet(<<2, BTREE_MAX_KEY_SIZE>>).found
    /\ TreeGet(<<2, BTREE_MAX_KEY_SIZE>>).val = <<1, BTREE_MAX_VAL_SIZE>>

----------------------------------------------------------------------------
(* Claims about the transactions *)

C4_OneWriter ==
    /\ Cardinality({w \in Writers : txs[w].pc = "active"}) <= 1
    /\ \A w \in Writers : txs[w].pc = "active" => kv.writer = w

\* a writer is in its transaction after another writer ended one, while a
\* reader is registered
C4_Witness ==
    \E w \in Writers :
        /\ txs[w].pc = "active"
        /\ txs[w].nops > 0
        /\ \E w2 \in Writers \ {w} : txs[w2].res # ""
        /\ \E r \in Readers : rds[r].on

\* C5: a Commit that publishes a changed root increases the version by
\* exactly one, and no other step changes the version.
C5_CommitIncrementsVersion ==
    [][kv'.version = IF \E w \in Writers, ok \in BOOLEAN : CommitPublish(w, ok)
                     THEN kv.version + 1
                     ELSE kv.version]_vars

C9_AbortRestores ==
    [][\A w \in Writers :
           Abort(w) =>
               /\ kv'.root = txs[w].start.root
               /\ kv'.version = txs[w].start.version
               /\ kv'.free = txs[w].start.free
               /\ kv'.flushed = txs[w].start.flushed
               /\ kv'.writer = 0
               /\ \A r \in Readers : rds[r].on => (rds'[r].on /\ ReaderView(r)' = rds[r].seen)
               /\ KVView' = txs[w].start.view]_vars

\* a transaction with updates was aborted while a reader was registered
C9_Witness ==
    \E w \in Writers :
        /\ txs[w].res = "aborted"
        /\ txs[w].nops = MaxTxOps
        /\ kv.writer = 0
        /\ \E r \in Readers : rds[r].on

\* C10: when Commit fails in phase 1, root, free list and flushed are what
\* they were at Begin and the writer mutex is released; and a transaction
\* allocates only page numbers that the committed tree does not use.
C10_FailedCommitRestores ==
    [][/\ \A w \in Writers :
              CommitRollback(w) =>
                  /\ kv'.root = txs[w].start.root
                  /\ kv'.free = txs[w].start.free
                  /\ kv'.flushed = txs[w].start.flushed
                  /\ kv'.writer = 0
       /\ \A w \in Writers :
              (TxAllocated(w)' \ TxAllocated(w)) \cap ReachPtrs(mmap, kv.root) = {}]_vars

\* C14: a KVTX.Update, in any mode, with a key longer than 1000 bytes or a
\* value longer than 3000 bytes returns an error, does not report a
\* modification, and leaves the root and the overlay of the transaction as
\* they were.
C14_OversizePutFails ==
    [][\A w \in Writers, k \in TxPutKeys, v \in TxPutVals, m \in Modes :
           (TxUpdate(w, k, v, m) /\ TooLarge(k, v)) =>
               /\ txs'[w].err # ""
               /\ ~txs'[w].ret
               /\ txs'[w].root = txs[w].root
               /\ txs'[w].updates = txs[w].updates]_vars

\* what the modes of Update promise, for a call with key, val and mode
\* that returned ret and err: before and after are the results of Get(key)
\* before and after the call, same tells that the tree is as it was
ModeOK(mode, val, ret, err, before, after, same) ==
    LET set == ret /\ err = "" /\ after.found /\ after.val = val
        not == ~ret /\ err = "" /\ same
    IN  CASE mode = 0 -> set
          [] mode = 1 -> IF before.found THEN set ELSE not
          [] mode = 2 -> IF before.found THEN not ELSE set
          [] OTHER -> ~ret /\ err # "" /\ same

\* C15: BTree.Update and KVTX.Update with valid sizes: UPSERT sets the key
\* and reports true; UPDATE_ONLY sets it and reports true when the key is
\* present, else changes nothing and reports false; INSERT_ONLY sets it and
\* reports true when the key is absent, else changes nothing and reports
\* false; another mode returns an error and changes nothing.
C15_UpdateModes ==
    [][/\ (last'.op = "Update" /\ last' # last /\ panicked' = "") =>
              ModeOK(last'.mode, last'.val, last'.ret, last'.err,
                     TreeGet(last'.key), TreeGetIn(root', pages', last'.key),
                     root' = root /\ pages' = pages)
       /\ \A w \in Writers, k \in TxKeys, v \in TxVals, m \in Modes :
              (TxUpdate(w, k, v, m) /\ crashed' = "") =>
                  ModeOK(m, v, txs'[w].ret, txs'[w].err,
                         Get(TxSt(w), txs[w].root, k), Get(TxSt(w), txs[w].root, k)',
                         txs'[w].root = txs[w].root /\ txs'[w].updates = txs[w].updates)]_vars

\* C16: a Del of a key that is not in the tree returns false, allocates no
\* page, frees no page and leaves the root; a Commit of a transaction whose
\* root is still the root of the KV makes no call (no flush, no sync, no
\* master page), leaves root, version and flushed of the KV, and releases
\* the writer mutex.
C16_NoChangeNoWork ==
    [][/\ \A w \in Writers, k \in TxKeys :
              (TxDel(w, k) /\ crashed' = "" /\ ~Get(TxSt(w), txs[w].root, k).found) =>
                  /\ ~txs'[w].ret
                  /\ txs'[w].updates = txs[w].updates
                  /\ txs'[w].nappend = txs[w].nappend
                  /\ txs'[w].root = txs[w].root
       /\ \A w \in Writers :
              (Commit(w) /\ txs[w].root = txs[w].start.root) =>
                  /\ txs'[w].io = <<>>
                  /\ kv' = [kv EXCEPT !.writer = 0]]_vars

\* a transaction that only deleted absent keys (or put without effect) from
\* a tree that holds a key has committed
C16_Witness ==
    \E w \in Writers :
        /\ txs[w].res = "nochange" /\ txs[w].nops = MaxTxOps /\ ~txs[w].ret
        /\ kv.writer = 0 /\ kv.root # 0
        /\ \E k \in TxKeys : KVView[k].found

\* the calls a Commit made while it held the registry mutex
InLock(io) ==
    {io[j] : j \in {i \in 1..Len(io) :
                       /\ \E a \in 1..(i - 1) : io[a] = "mu.Lock"
                       /\ \E b \in (i + 1)..Len(io) : io[b] = "mu.Unlock"}}

\* C20: BeginRead and EndRead never take or wait for the writer mutex: a
\* reader can begin, and a registered reader can end, in every state, also
\* while a write transaction is open; they leave the writer mutex as it is;
\* and Commit holds the registry mutex only around SetRoot, with no I/O.
C20_ReadersNeverWait ==
    /\ [](crashed = "" =>
             \A r \in Readers : IF rds[r].on THEN ENABLED EndRead(r) ELSE ENABLED BeginRead(r))
    /\ [](\A w \in Writers : InLock(txs[w].io) \subseteq {"SetRoot"})
    /\ [][\A r \in Readers : (BeginRead(r) \/ EndRead(r)) => kv'.writer = kv.writer]_vars

\* a reader began while a write transaction was open, and the transaction
\* has since changed its tree and is still open
C20_Witness ==
    \E r \in Readers, w \in Writers :
        /\ rds[r].on /\ rds[r].during = w
        /\ txs[w].pc = "active" /\ txs[w].nops > 0 /\ txs[w].root # kv.root
        /\ ReaderView(r) = rds[r].seen

\* C17: no page allocator returns page number 0: in every KV.Set of the
\* disk store, Insert gets no page 0 from KV.pageNew, so the root of a tree
\* that holds a key is never 0.
C17_NoAllocatorReturnsZero ==
    [][\A k \in TxPutKeys, v \in TxPutVals : KV_Set(k, v) =>
          \E ins \in {Insert(DiskSt, db.root, k, v)} :
              ins.st.panic = "" =>
                  /\ 0 \notin DOMAIN ins.st.pages
                  /\ ins.st.nappend > 0 => ins.root # 0]_vars

\* C11: a Commit calls StoreMaster only after FlushPages and a successful
\* first Sync, and by then every page the transaction allocated has been
\* copied into the mapping; a Commit whose first Sync fails does not call
\* StoreMaster.
C11_MasterAfterData ==
    [][\A w \in Writers : Commit(w) =>
          /\ \A i \in 1..Len(txs'[w].io) : txs'[w].io[i] = "StoreMaster" =>
                /\ \E a \in 1..(i - 1) : txs'[w].io[a] = "FlushPages"
                /\ \E b \in 1..(i - 1) : txs'[w].io[b] = "Sync"
                /\ \A p \in TxAllocated(w) :
                      p \in DOMAIN mmap' /\ mmap'[p] = txs[w].updates[p]
          /\ txs'[w].res = "rollback" =>
                \A i \in 1..Len(txs'[w].io) : txs'[w].io[i] # "StoreMaster"]_vars

----------------------------------------------------------------------------
(* Claims about the disk store *)

\* the pages of the store's tree
DiskReach ==
    IF db.root = 0 THEN {}
    ELSE ReachPtrs([x \in DOMAIN db.file \cup DOMAIN db.updates |->
                      IF x \in DOMAIN db.updates THEN db.updates[x] ELSE db.file[x]],
                   db.root)

C19_PageConservation ==
    (db.open /\ db.last.op \in {"Set", "Del"} /\ db.last.err = "") =>
        db.flushed - FreeList_Total(db.free) = Cardinality(DiskReach) + 1

----------------------------------------------------------------------------
(* The RWMutex of the concurrency package *)

\* Cond.Signal: the outcomes; one of the goroutines in Wait is awoken
Signal(r, waiting, awoken) ==
    IF \A p \in Procs : r.gs[p].pc # waiting THEN {r}
    ELSE {[r EXCEPT !.gs[p].pc = awoken] : p \in {q \in Procs : r.gs[q].pc = waiting}}

\* Cond.Broadcast
Broadcast(r, waiting, awoken) ==
    [r EXCEPT !.gs = [p \in Procs |-> IF r.gs[p].pc = waiting
                                       THEN [r.gs[p] EXCEPT !.pc = awoken] ELSE r.gs[p]]]

\* RLock, from the test of its loop on, with mu held
RLockLoop(r, p) ==
    IF r.writers > 0 \/ r.writeWaiters > 0
    THEN [r EXCEPT !.readWaiters = @ + 1, !.gs[p].pc = "rwait"]
    ELSE [r EXCEPT !.readers = @ + 1, !.gs[p].pc = "idle", !.gs[p].held = "r"]

\* Lock, from the test of its loop on, with mu held
LockLoop(r, p) ==
    IF r.readers > 0 \/ r.writers > 0
    THEN [r EXCEPT !.writeWaiters = @ + 1, !.gs[p].pc = "wwait"]
    ELSE [r EXCEPT !.writers = @ + 1, !.gs[p].pc = "idle", !.gs[p].held = "w"]

\* a goroutine that is in no call and holds nothing
Free(p) == rw.gs[p] = [NewG EXCEPT !.ret = rw.gs[p].ret]

\* RWMutex.RLock, up to its return or its first Wait
RLock(p) ==
    /\ Free(p)
    /\ rw' = RLockLoop(rw, p)
    /\ UNCHANGED <<cvars, txvars, dvars, mv, evars>>

\* RWMutex.Lock, up to its return or its first Wait
Lock(p) ==
    /\ Free(p)
    /\ rw' = LockLoop(rw, p)
    /\ UNCHANGED <<cvars, txvars, dvars, mv, evars>>

\* RLock after readCond.Wait returned: readWaiters--, and the loop again
RWake(p) ==
    /\ rw.gs[p].pc = "rwake"
    /\ rw' = RLockLoop([rw EXCEPT !.readWaiters = @ - 1], p)
    /\ UNCHANGED <<cvars, txvars, dvars, mv, evars>>

\* Lock after writeCond.Wait returned
WWake(p) ==
    /\ rw.gs[p].pc = "wwake"
    /\ rw' = LockLoop([rw EXCEPT !.writeWaiters = @ - 1], p)
    /\ UNCHANGED <<cvars, txvars, dvars, mv, evars>>

\* the caller of p's lock may unlock it: it called RLock or Lock itself, or
\* WaitForLock returned true to it
Owns(p, kind) ==
    rw.gs[p].pc = "idle" /\ rw.gs[p].held = kind /\ rw.gs[p].via \in {"", "true"}

\* RWMutex.RUnlock
RUnlock(p) ==
    /\ Owns(p, "r")
    /\ \E r \in {[rw EXCEPT !.readers = @ - 1, !.gs[p].held = "", !.gs[p].via = ""]} :
         rw' \in (IF r.readers = 0 /\ r.writeWaiters > 0
                  THEN Signal(r, "wwait", "wwake") ELSE {r})
    /\ UNCHANGED <<cvars, txvars, dvars, mv, evars>>

\* RWMutex.Unlock
Unlock(p) ==
    /\ Owns(p, "w")
    /\ \E r \in {[rw EXCEPT !.writers = @ - 1, !.gs[p].held = "", !.gs[p].via = ""]} :
         rw' \in (IF r.writeWaiters > 0 THEN Signal(r, "wwait", "wwake")
                  ELSE IF r.readWaiters > 0 THEN {Broadcast(r, "rwait", "rwake")}
                  ELSE {r})
    /\ UNCHANGED <<cvars, txvars, dvars, mv, evars>>

\* a TryRLock that would not look at the writers
TryRLock_blind(p) ==
    /\ Free(p)
    /\ rw' = [rw EXCEPT !.readers = @ + 1, !.gs[p].held = "r", !.gs[p].ret = "true"]
    /\ UNCHANGED <<cvars, txvars, dvars, mv, evars>>

\* RWMutex.TryRLock
TryRLock(p) ==
    /\ Free(p)
    /\ rw' = IF rw.writers > 0 \/ rw.writeWaiters > 0
             THEN [rw EXCEPT !.gs[p].ret = "false"]
             ELSE [rw EXCEPT !.readers = @ + 1, !.gs[p].held = "r", !.gs[p].ret = "true"]
    /\ UNCHANGED <<cvars, txvars, dvars, mv, evars>>

\* RWMutex.TryLock
TryLock(p) ==
    /\ Free(p)
    /\ rw' = IF rw.readers > 0 \/ rw.writers > 0
             THEN [rw EXCEPT !.gs[p].ret = "false"]
             ELSE [rw EXCEPT !.writers = @ + 1, !.gs[p].held = "w", !.gs[p].ret = "true"]
    /\ UNCHANGED <<cvars, txvars, dvars, mv, evars>>

\* RWMutex.WaitForLock: the go statement; the caller is in its select
WaitForLock(p, isWrite) ==
    /\ Free(p)
    /\ rw' = [rw EXCEPT !.gs[p].via = "select",
                        !.gs[p].pc = IF isWrite THEN "wstart" ELSE "rstart"]
    /\ UNCHANGED <<cvars, txvars, dvars, mv, evars>>

\* the goroutine of WaitForLock calls rw.RLock or rw.Lock
GoLock(p) ==
    /\ rw.gs[p].pc \in {"rstart", "wstart"}
    /\ rw' = IF rw.gs[p].pc = "rstart" THEN RLockLoop(rw, p) ELSE LockLoop(rw, p)
    /\ UNCHANGED <<cvars, txvars, dvars, mv, evars>>

\* WaitForLock: case <-timeoutChan, return false; the goroutine goes on
Timeout(p) ==
    /\ rw.gs[p].via = "select"
    /\ rw' = [rw EXCEPT !.gs[p].via = "false"]
    /\ UNCHANGED <<cvars, txvars, dvars, mv, evars>>

\* WaitForLock: case <-acquired, return true
Acquired(p) ==
    /\ rw.gs[p].via = "select"
    /\ rw.gs[p].pc = "idle" /\ rw.gs[p].held # ""
    /\ rw' = [rw EXCEPT !.gs[p].via = "true"]
    /\ UNCHANGED <<cvars, txvars, dvars, mv, evars>>

NextLock ==
    \/ \E p \in Procs : RLock(p)
    \/ \E p \in Procs : Lock(p)
    \/ \E p \in Procs : RWake(p)
    \/ \E p \in Procs : WWake(p)
    \/ \E p \in Procs : RUnlock(p)
    \/ \E p \in Procs : Unlock(p)
    \/ \E p \in Procs : TryRLock(p)
    \/ \E p \in Procs : TryLock(p)
    \/ \E p \in Procs, isWrite \in BOOLEAN : WaitForLock(p, isWrite)
    \/ \E p \in Procs : GoLock(p)
    \/ \E p \in Procs : Timeout(p)
    \/ \E p \in Procs : Acquired(p)

InitLock == newC /\ Open("new") /\ NoDisk /\ NoLocks

SpecLock == InitLock /\ [][NextLock]_vars

----------------------------------------------------------------------------
(* The MVCCManager of the concurrency package, with one table *)

MvTxs == 1..MaxMvTx

\* the element of a set of Versions with the largest Version number
Latest(vs) == CHOOSE v \in vs : \A u \in vs : u.version <= v.version

\* findReadVersion: the loop ranges over the Versions of all keys of the
\* table; NoVersion is the nil *Version
NoVersion == [version |-> 0, tx |-> 0, key |-> "", data |-> Nil, ts |-> 0, deleted |-> FALSE]

findReadVersion(m, t, key) ==
    With({m.versions[k] : k \in {x \in DOMAIN m.versions :
              /\ m.versions[x].tx # t
              /\ m.versions[x].ts <= m.transactions[t].readTime}}, LAMBDA vs :
         IF vs = {} THEN NoVersion ELSE Latest(vs))

\* BeginTransaction; every time.Now() is later than the one before
BeginTransaction ==
    /\ mv.nextTxID <= MaxMvTx
    /\ mv' = [mv EXCEPT !.nextTxID = @ + 1, !.now = @ + 1,
                        !.transactions = Put(mv.transactions, mv.nextTxID,
                            [status |-> "active", readTime |-> mv.now + 1,
                             readSet |-> {}, writeSet |-> <<>>, nops |-> 0,
                             asked |-> {}, both |-> {}]),
                        !.last = [NoMvCall EXCEPT !.op = "Begin", !.tx = mv.nextTxID]]
    /\ UNCHANGED <<cvars, txvars, dvars, rw, evars>>

\* a transaction that BeginTransaction returned and that may make a call
MvCanCall(t) == t \in DOMAIN mv.transactions /\ mv.transactions[t].nops < MaxMvOps

NotActive(t, op, key) ==
    [mv EXCEPT !.transactions[t].nops = @ + 1,
               !.last = [NoMvCall EXCEPT !.op = op, !.tx = t, !.key = key,
                                         !.err = "transaction is not active"]]

\* the other transactions that are active
MvOthers(m, t) == {u \in DOMAIN m.transactions \ {t} : m.transactions[u].status = "active"}

\* asked: the keys that a transaction has read before it wrote them, each
\* with a transaction that was active then; both: those of them that it
\* has then written while that transaction was active
\* MVCCManager.Read
MVCC_Read(m, t, key) ==
    With(m.transactions[t], LAMBDA tx :
    IF key \in DOMAIN tx.writeSet
    THEN [m |-> [m EXCEPT !.transactions[t].readSet = @ \cup {key}],
          ret |-> tx.writeSet[key]]
    ELSE With(findReadVersion(m, t, key), LAMBDA version :
         IF version = NoVersion \/ version.deleted
         THEN [m |-> m, ret |-> Nil]
         ELSE [m |-> [m EXCEPT !.transactions[t].readSet = @ \cup {key}],
               ret |-> version.data]))

MvRead(t, key) ==
    /\ MvCanCall(t)
    /\ mv' = IF mv.transactions[t].status # "active" THEN NotActive(t, "Read", key)
             ELSE With(MVCC_Read(mv, t, key), LAMBDA r :
                  [r.m EXCEPT !.transactions[t].nops = @ + 1,
                              !.transactions[t].asked =
                                  IF key \in DOMAIN mv.transactions[t].writeSet THEN @
                                  ELSE @ \cup {<<key, u>> : u \in MvOthers(mv, t)},
                              !.last = [NoMvCall EXCEPT !.op = "Read", !.tx = t, !.key = key,
                                                        !.ret = r.ret]])
    /\ UNCHANGED <<cvars, txvars, dvars, rw, evars>>

\* MVCCManager.Write, and MVCCManager.Delete (data = Nil)
MVCC_Write(m, t, key, data) ==
    [m EXCEPT !.transactions[t].writeSet = Put(@, key, data)]

MvWrite(t, key, data) ==
    /\ MvCanCall(t)
    /\ mv' = IF mv.transactions[t].status # "active" THEN NotActive(t, "Write", key)
             ELSE [MVCC_Write(mv, t, key, data) EXCEPT
                      !.transactions[t].nops = @ + 1,
                      !.transactions[t].both =
                          @ \cup {<<key, u>> : u \in {x \in MvOthers(mv, t) :
                                      <<key, x>> \in mv.transactions[t].asked}},
                      !.last = [NoMvCall EXCEPT !.op = "Write", !.tx = t, !.key = key]]
    /\ UNCHANGED <<cvars, txvars, dvars, rw, evars>>

MvDelete(t, key) ==
    /\ MvCanCall(t)
    /\ mv' = IF mv.transactions[t].status # "active" THEN NotActive(t, "Delete", key)
             ELSE [MVCC_Write(mv, t, key, Nil) EXCEPT
                      !.transactions[t].nops = @ + 1,
                      !.transactions[t].both =
                          @ \cup {<<key, u>> : u \in {x \in MvOthers(mv, t) :
                                      <<key, x>> \in mv.transactions[t].asked}},
                      !.last = [NoMvCall EXCEPT !.op = "Delete", !.tx = t, !.key = key]]
    /\ UNCHANGED <<cvars, txvars, dvars, rw, evars>>

\* validateTransaction with checkWriteConflict: a key of the read set has a
\* Version of another transaction made after the read time
validateTransaction(m, t) ==
    \E key \in m.transactions[t].readSet :
        /\ key \in DOMAIN m.versions
        /\ m.versions[key].tx # t
        /\ m.versions[key].ts > m.transactions[t].readTime

\* applyWrites: the keys of the write set in the order keys (the range over
\* a map takes any order); each Version gets the next number and time
RECURSIVE applyWrites(_, _, _)
applyWrites(m, t, keys) ==
    IF keys = <<>> THEN m
    ELSE With([version |-> m.nextVersion, tx |-> t, key |-> keys[1],
               data |-> m.transactions[t].writeSet[keys[1]], ts |-> m.now + 1,
               deleted |-> m.transactions[t].writeSet[keys[1]] = Nil], LAMBDA v :
         applyWrites([m EXCEPT !.versions = Put(@, keys[1], v), !.nextVersion = @ + 1,
                               !.now = @ + 1, !.hist = @ \cup {v}],
                     t, Tail(keys)))

\* MVCCManager.CommitTransaction
MvCommit(t) ==
    /\ t \in DOMAIN mv.transactions
    /\ mv.transactions[t].status = "active"
    /\ \E call \in {[NoMvCall EXCEPT !.op = "Commit", !.tx = t]} :
         IF validateTransaction(mv, t)
         THEN mv' = [mv EXCEPT !.transactions[t].status = "aborted",
                               !.last = [call EXCEPT !.err = "write conflict"]]
         ELSE \E keys \in Orders(DOMAIN mv.transactions[t].writeSet) :
                mv' = [applyWrites(mv, t, keys) EXCEPT
                          !.transactions[t].status = "committed", !.last = call]
    /\ UNCHANGED <<cvars, txvars, dvars, rw, evars>>

\* MVCCManager.AbortTransaction
MvAbort(t) ==
    /\ t \in DOMAIN mv.transactions
    /\ mv.transactions[t].status = "active"
    /\ mv' = [mv EXCEPT !.transactions[t].status = "aborted",
                        !.last = [NoMvCall EXCEPT !.op = "Abort", !.tx = t]]
    /\ UNCHANGED <<cvars, txvars, dvars, rw, evars>>

NextMVCC ==
    \/ BeginTransaction
    \/ \E t \in MvTxs, k \in MvKeys : MvRead(t, k)
    \/ \E t \in MvTxs, k \in MvKeys, d \in MvData : MvWrite(t, k, d)
    \/ \E t \in MvTxs, k \in MvKeys : MvDelete(t, k)
    \/ \E t \in MvTxs : MvCommit(t)
    \/ \E t \in MvTxs : MvAbort(t)

InitMVCC == newC /\ Open("new") /\ NoDisk /\ NoLocks

SpecMVCC == InitMVCC /\ [][NextMVCC]_vars

----------------------------------------------------------------------------
(* Claims about the allocator of the transactions *)

\* C21: when the free list of a write transaction holds a page and every
\* registered reader began after the transaction, an Update that allocates
\* pages takes one from the free list: the list gets shorter and one of
\* the new pages lies below flushed.
C21_PageNewReuses ==
    [][\A w \in Writers, k \in TxPutKeys, v \in TxPutVals, m \in Modes :
          (/\ TxUpdate(w, k, v, m)
           /\ txs[w].free.data.total >= 1
           /\ \A r \in Readers : rds[r].on => rds[r].during = w
           /\ TxAllocated(w)' # TxAllocated(w))
          => /\ txs'[w].free.data.total < txs[w].free.data.total
             /\ \E q \in TxAllocated(w)' \ TxAllocated(w) : q < kv.flushed]_vars

----------------------------------------------------------------------------
(* Claims about the concurrency package *)

Holders(kind) == {p \in Procs : rw.gs[p].held = kind}

\* C22: under every interleaving of RLock, RUnlock, Lock, Unlock, TryRLock
\* and TryLock (and WaitForLock) by clients that unlock only what they hold,
\* at most one writer holds the lock, no reader holds it while a writer
\* does, and the counters are the numbers of holders.
C22_LockExclusion ==
    /\ rw.writers <= 1
    /\ rw.writers = 1 => rw.readers = 0
    /\ rw.writers = Cardinality(Holders("w"))
    /\ rw.readers = Cardinality(Holders("r"))

\* a writer holds the lock while one goroutine waits in RLock and a
\* TryRLock of a third has returned false
C22_Witness ==
    \E p, q, r \in Procs :
        /\ p # q /\ q # r /\ p # r
        /\ rw.gs[p].held = "w" /\ rw.writers = 1
        /\ rw.gs[q].pc = "rwait"
        /\ rw.gs[r].ret = "false" /\ Free(r)

\* C23: a WaitForRLock or WaitForWriteLock that found the lock held and
\* returned false at its timeout never becomes a holder of the lock: when
\* its goroutine is awoken after the holder's Unlock, it takes no lock.
C23_TimedOutNeverHolds ==
    [][\A p \in Procs :
          (rw.gs[p].via = "false" /\ (RWake(p) \/ WWake(p))) => rw'.gs[p].held = ""]_vars

\* the Versions of key that transactions other than t committed no later
\* than the read time of t
CommittedFor(t, key) ==
    {h \in mv.hist : h.key = key /\ h.tx # t /\ h.ts <= mv.transactions[t].readTime}

\* what a Read of key by t is to return
Visible(t, key) ==
    IF key \in DOMAIN mv.transactions[t].writeSet THEN mv.transactions[t].writeSet[key]
    ELSE IF CommittedFor(t, key) = {} THEN Nil
    ELSE Latest(CommittedFor(t, key)).data

\* C24: Read on an active transaction returns the transaction's own pending
\* write of the key (nil after its own Delete), and otherwise the data of the
\* most recent version of that same key that another transaction committed no
\* later than the read time, nil when there is none or it is a deletion
C24_ReadSeesItsKey ==
    [][\A t \in MvTxs, k \in MvKeys :
          (/\ MvRead(t, k)
           /\ mv.transactions[t].status = "active")
          => mv'.last.ret = Visible(t, k)]_vars

----------------------------------------------------------------------------
(* Claims about splitting and merging nodes *)

\* the nodes that are given to nodeSplit3 while key and val are inserted
\* under node: the result of treeInsert at every level of the path
RECURSIVE SplitArgs(_, _, _, _)
SplitArgs(st, node, key, val) ==
    With(treeInsert(st, node, key, val), LAMBDA r :
    (IF r.st.panic = "" THEN {r.node} ELSE {})
    \cup IF btype(node) = BNODE_NODE /\ nodeLookupLE(node, key) < nkeys(node)
         THEN With(getPtr(node, nodeLookupLE(node, key)), LAMBDA kptr :
              With(tree_get(st, kptr), LAMBDA g :
              SplitArgs(tree_del(g.st, kptr), g.node, key, val)))
         ELSE {})

RECURSIVE Concat(_)
Concat(nodes) == IF nodes = <<>> THEN <<>> ELSE Head(nodes).items \o Concat(Tail(nodes))

\* nodeSplit3 of node passes its assertions and returns one to three nodes
\* that fit a page, have a key each and hold the entries of node in order
SplitsWell(node) ==
    With(nodeSplit3(node), LAMBDA sp :
    /\ sp.panic = ""
    /\ Len(sp.split) \in 1..3
    /\ \A i \in 1..Len(sp.split) :
          nkeys(sp.split[i]) >= 1 /\ nbytes(sp.split[i]) <= BTREE_PAGE_SIZE
    /\ Concat(sp.split) = node.items)

\* C25: nodeSplit3 of every node that one insertion produces (at most two
\* pages, entries within the limits) returns one, two or three nodes, each
\* with at least one key and at most 4096 bytes, whose entries in order are
\* the entries of the input; no assertion of nodeSplit2 or nodeSplit3 fails
C25_SplitFitsPages ==
    [][(last'.op = "Insert" /\ panicked = "" /\ root # 0)
       => \A n \in SplitArgs(MemSt, C_get(MemSt, root).node, last'.key, last'.val) :
             /\ nbytes(n) <= 2 * BTREE_PAGE_SIZE
             /\ SplitsWell(n)]_vars

\* the tree is one step before an insertion that splits a leaf in three, and
\* an insertion has just split a node
C25_Witness ==
    /\ last.op = "Insert" /\ panicked = ""
    /\ Cardinality(DOMAIN pages) >= 3
    /\ \E k \in SplitKeys, v \in SplitVals :
          \E n \in SplitArgs(MemSt, C_get(MemSt, root).node, k, v) :
              Len(nodeSplit3(n).split) = 3

\* the internal nodes on the path of a deletion of key under node whose
\* updated child comes back with zero keys and has no sibling to merge with
RECURSIVE EmptyKids(_, _, _)
EmptyKids(st, node, key) ==
    IF btype(node) # BNODE_NODE \/ nodeLookupLE(node, key) >= nkeys(node) THEN {}
    ELSE With(nodeLookupLE(node, key), LAMBDA idx :
         With(tree_get(st, getPtr(node, idx)), LAMBDA g :
         With(treeDelete(g.st, g.node, key), LAMBDA r :
         (IF /\ r.st.panic = "" /\ r.found /\ nkeys(r.node) = 0
             /\ shouldMerge(tree_del(r.st, getPtr(node, idx)), node, idx, r.node).dir = 0
          THEN {node} ELSE {})
         \cup EmptyKids(g.st, g.node, key))))

\* C26: in nodeDelete, when the updated child has zero keys and no sibling
\* can be merged with it, the parent has exactly one child and the deletion
\* goes on without a failed assertion
C26_EmptyChildHandled ==
    [][(last'.op = "Delete" /\ panicked = "" /\ root # 0)
       => \A n \in EmptyKids(MemSt, C_get(MemSt, root).node, last'.key) :
             nkeys(n) = 1 /\ panicked' = ""]_vars

----------------------------------------------------------------------------
(* Claims about the shape of the tree *)

\* the leaves under the page ptr, from left to right
RECURSIVE Leaves(_, _)
RECURSIVE LeavesOfKids(_, _)
LeavesOfKids(pgs, items) ==
    IF items = <<>> THEN <<>>
    ELSE Leaves(pgs, Head(items).ptr) \o LeavesOfKids(pgs, Tail(items))

Leaves(pgs, ptr) ==
    IF ptr \notin DOMAIN pgs THEN <<>>
    ELSE IF btype(pgs[ptr]) = BNODE_NODE THEN LeavesOfKids(pgs, pgs[ptr].items)
    ELSE <<pgs[ptr]>>

\* the first key of the leftmost leaf under ptr is key
SubtreeStartsWith(pgs, ptr, key) ==
    /\ Leaves(pgs, ptr) # <<>>
    /\ nkeys(Leaves(pgs, ptr)[1]) >= 1
    /\ getKey(Leaves(pgs, ptr)[1], 0) = key

\* C27: after any Insert and Delete calls, with any keys (the empty key
\* too), the first key of the leftmost leaf is the empty sentinel key and the
\* first key of every internal node is the smallest key of its subtree; once
\* the last user key is deleted the root is a leaf with only the sentinel
C27_SentinelStaysFirst ==
    (panicked = "" /\ root # 0) =>
        /\ SubtreeStartsWith(pages, root, EmptyBytes)
        /\ \A p \in ReachPtrs(pages, root) :
              btype(pages[p]) = BNODE_NODE =>
                  \A i \in 1..nkeys(pages[p]) :
                      SubtreeStartsWith(pages, pages[p].items[i].ptr, pages[p].items[i].key)
        /\ ref = <<>> => pages[root] = BNode(BNODE_LEAF, <<Item(EmptyBytes, EmptyBytes, 0)>>)

RECURSIVE MergeCalls(_, _, _)
MergeCalls(st, node, key) ==
    IF btype(node) # BNODE_NODE \/ nodeLookupLE(node, key) >= nkeys(node) THEN {}
    ELSE With(nodeLookupLE(node, key), LAMBDA idx :
         With(tree_get(st, getPtr(node, idx)), LAMBDA g :
         With(treeDelete(g.st, g.node, key), LAMBDA r :
         (IF r.st.panic = "" /\ r.found
          THEN {[st |-> tree_del(r.st, getPtr(node, idx)), node |-> node, idx |-> idx,
                 updated |-> r.node]}
          ELSE {})
         \cup MergeCalls(g.st, g.node, key))))

\* the kid of the call c that is off places from the updated one
Sibling(c, off) == c.st.pages[getPtr(c.node, c.idx + off)]

FitsWith(c, off) == nbytes(Sibling(c, off)) + nbytes(c.updated) - 4 <= 4096

\* the direction the rule of the quarter page gives
MergeDir(c) ==
    IF nbytes(c.updated) > 1024 THEN 0
    ELSE IF c.idx > 0 /\ FitsWith(c, -1) THEN -1
    ELSE IF c.idx + 1 < nkeys(c.node) /\ FitsWith(c, 1) THEN 1
    ELSE 0

\* the node a merge builds fits a page and holds the entries of both in order
MergedWell(merged, left, right) ==
    /\ nbytes(merged) <= BTREE_PAGE_SIZE
    /\ merged.items = left.items \o right.items
    /\ btype(merged) = btype(left)
    /\ StrictlyIncreasing(merged)

\* C29: shouldMerge returns no merge when the updated child is larger than
\* 1024 bytes; otherwise the left sibling when there is one and its size plus
\* the updated size - 4 is at most 4096, else the right sibling under the
\* same bound, else no merge; the merged node is at most 4096 bytes and holds
\* exactly the entries of both nodes in key order
C29_MergeRule ==
    [][(last'.op = "Delete" /\ panicked = "" /\ root # 0)
       => \A c \in MergeCalls(MemSt, C_get(MemSt, root).node, last'.key) :
             With(shouldMerge(c.st, c.node, c.idx, c.updated), LAMBDA m :
             /\ m.st.panic = ""
             /\ m.dir = MergeDir(c)
             /\ m.dir = -1 => /\ m.sibling = Sibling(c, -1)
                              /\ MergedWell(nodeMerge(m.sibling, c.updated),
                                            m.sibling, c.updated)
             /\ m.dir = 1 => /\ m.sibling = Sibling(c, 1)
                             /\ MergedWell(nodeMerge(c.updated, m.sibling),
                                           c.updated, m.sibling))]_vars

\* the tree has three leaves or more, and the deletion of one of its keys
\* leaves a leaf with a key that is merged into its right sibling because the
\* left sibling is too large
C29_Witness ==
    /\ panicked = "" /\ root # 0
    /\ Len(Leaves(pages, root)) >= 3
    /\ \E k \in SplitKeys :
          \E c \in MergeCalls(MemSt, C_get(MemSt, root).node, k) :
              /\ c.idx > 0 /\ nkeys(c.updated) > 0
              /\ ~FitsWith(c, -1)
              /\ shouldMerge(c.st, c.node, c.idx, c.updated).dir = 1

\* C30: a successful Delete frees the old root page; when the updated root
\* is an internal node with exactly one key its single child becomes the
\* root and no page is allocated for the updated root; otherwise the updated
\* root is allocated as a new page and becomes the root; the root is never
\* left as an internal node with zero keys
C30_RootAfterDelete ==
    [][(last'.op = "Delete" /\ last'.ret /\ panicked = "" /\ panicked' = "")
       => With(treeDelete(MemSt, pages[root], last'.key), LAMBDA r :
          With(Drop(r.st.pages, root), LAMBDA rest :
          /\ root \in DOMAIN r.st.pages
          /\ IF btype(r.node) = BNODE_NODE /\ nkeys(r.node) = 1
             THEN root' = getPtr(r.node, 0) /\ pages' = rest
             ELSE /\ root' \notin DOMAIN rest
                  /\ pages' = Put(rest, root', r.node)
          /\ ~(btype(pages'[root']) = BNODE_NODE /\ nkeys(pages'[root']) = 0)))]_vars

\* a Delete has taken a tree of two leaves to its one remaining leaf: the
\* updated root had one key and its child became the root
C30_Witness ==
    /\ last.op = "Delete" /\ last.ret /\ panicked = ""
    /\ Cardinality(DOMAIN ref) = 1
    /\ DOMAIN pages = {root}
    /\ btype(pages[root]) = BNODE_LEAF /\ nkeys(pages[root]) = 2

----------------------------------------------------------------------------
(* Claims about the order of a commit and about the readers *)

\* C31: Commit changes the root that new readers capture only after the
\* master page is stored and the second fsync has succeeded: when the second
\* Sync fails, a reader that begins afterwards captures the root that was
\* current before the transaction
C31_RootAfterSecondSync ==
    [][\A w \in Writers :
          (Commit(w) /\ txs'[w].res = "fsync2")
          => /\ kv'.root = txs[w].start.root
             /\ \A r \in Readers : ENABLED BeginRead(r) => KVView' = txs[w].start.view]_vars

\* the readers that have begun and not ended
Registered == {r \in Readers : rds[r].on}

\* C32: Begin sets the minimum reader version of the free list to the
\* version of the oldest registered reader when there is one, and to the
\* current version plus one when no reader is registered
C32_MinReaderAtBegin ==
    [][\A w \in Writers :
          Begin(w)
          => txs'[w].free.minReader =
                 IF Registered # {}
                 THEN CHOOSE v \in {rds[r].version : r \in Registered} :
                          \A r \in Registered : v <= rds[r].version
                 ELSE kv.version + 1]_vars

\* C33: after any BeginRead and EndRead calls the reader list holds exactly
\* the readers that have begun and not ended, each reader's index is its
\* position in the list, and the reader at position 0 has the smallest
\* version of all registered readers
C33_ReaderListIsHeap ==
    /\ Len(kv.readers) = Cardinality({r \in DOMAIN rds : rds[r].on})
    /\ {kv.readers[i] : i \in 1..Len(kv.readers)} = {r \in DOMAIN rds : rds[r].on}
    /\ \A i \in 1..Len(kv.readers) : rds[kv.readers[i]].index = i - 1
    /\ \A r \in DOMAIN rds :
          /\ rds[r].on => rds[kv.readers[1]].version <= rds[r].version
          /\ ~rds[r].on => rds[r].index = -1

\* three readers with three versions are registered, the one that began
\* last is the oldest, and a reader has ended
C33_Witness ==
    /\ Len(kv.readers) = 3
    /\ Cardinality({rds[kv.readers[i]].version : i \in 1..3}) = 3
    /\ rds[kv.readers[1]].version < kv.version
    /\ rds[kv.readers[3]].version < rds[kv.readers[2]].version

(***************************************************************************)
(* The linked free list of kv-store/define.go                              *)
(***************************************************************************)

FREE_LIST_HEADER == 4 + 8 + 8
FREE_LIST_CAP == (BTREE_PAGE_SIZE - FREE_LIST_HEADER) \div 8

\* the calls of Update that the model makes: the numbers of popped items and
\* the numbers of freed pages
MaxUpdates == 3
MaxPop == 2
FreedLens == {0, 1, 2, FREE_LIST_CAP - 1, FREE_LIST_CAP, FREE_LIST_CAP + 1}

\* a list node: its pointers (size is their number), the next node and the
\* total, which only the head node has
flnSize(node) == Len(node.ptrs)
flnNext(node) == node.next
flnPtr(node, idx) == node.ptrs[idx + 1]
flnTotal(node) == node.total

\* FreeList.Total
FL_Total(f) == IF f.head = 0 THEN 0 ELSE flnTotal(f.pages[f.head])

\* FreeList.Get: the loop from the node it has reached
RECURSIVE FL_GetFrom(_, _, _)
FL_GetFrom(f, node, topn) ==
    IF flnSize(node) <= topn
    THEN IF flnNext(node) = 0
         THEN [ptr |-> 0, err |-> "next != 0"]
         ELSE FL_GetFrom(f, f.pages[flnNext(node)], topn - flnSize(node))
    ELSE [ptr |-> flnPtr(node, flnSize(node) - topn - 1), err |-> ""]

FL_Get(f, topn) ==
    IF ~(0 <= topn /\ topn < FL_Total(f))
    THEN [ptr |-> 0, err |-> "0 <= topn && topn < fl.Total()"]
    ELSE FL_GetFrom(f, f.pages[f.head], topn)

\* Update, phase 2: the pointers of a node that become pages of new nodes
RECURSIVE takeReuse(_, _, _, _)
takeReuse(node, remain, reuse, nfreed) ==
    IF remain > 0 /\ Len(reuse) * FREE_LIST_CAP < nfreed + remain
    THEN takeReuse(node, remain - 1, Append(reuse, flnPtr(node, remain - 1)), nfreed)
    ELSE [remain |-> remain, reuse |-> reuse]

\* Update: the loop that removes nodes from the head of the list
RECURSIVE popNodes(_, _)
popNodes(f, s) ==
    IF s.head # 0 /\ Len(s.reuse) * FREE_LIST_CAP < Len(s.freed)
    THEN With(f.pages[s.head], LAMBDA node :
         With(Append(s.freed, s.head), LAMBDA freed :
           IF s.popn >= flnSize(node)
           THEN popNodes(f, [head |-> flnNext(node), popn |-> s.popn - flnSize(node),
                             freed |-> freed, reuse |-> s.reuse,
                             total |-> s.total - flnSize(node)])
           ELSE With(takeReuse(node, flnSize(node) - s.popn, s.reuse, Len(freed)), LAMBDA t :
                  popNodes(f, [head |-> flnNext(node), popn |-> 0,
                               freed |-> freed \o SubSeq(node.ptrs, 1, t.remain),
                               reuse |-> t.reuse,
                               total |-> s.total - flnSize(node)]))))
    ELSE s

\* flPush; fl.use writes a page, fl.new appends one to the file
RECURSIVE flPush(_, _, _)
flPush(f, freed, reuse) ==
    IF Len(freed) > 0
    THEN With(IF Len(freed) > FREE_LIST_CAP THEN FREE_LIST_CAP ELSE Len(freed), LAMBDA size :
         With([ptrs |-> SubSeq(freed, 1, size), next |-> f.head, total |-> 0], LAMBDA new :
           IF Len(reuse) > 0
           THEN flPush([f EXCEPT !.head = reuse[1], !.pages = Put(@, reuse[1], new)],
                       SubSeq(freed, size + 1, Len(freed)), Tail(reuse))
           ELSE flPush([f EXCEPT !.head = f.top, !.pages = Put(@, f.top, new),
                                 !.top = @ + 1],
                       SubSeq(freed, size + 1, Len(freed)), reuse)))
    ELSE IF Len(reuse) = 0 THEN f ELSE [f EXCEPT !.err = "len(reuse) == 0"]

\* FreeList.Update, if the total counted the pages of the caller only
FL_Update_given(f, popn, freed) ==
    IF ~(popn <= FL_Total(f)) THEN [f EXCEPT !.err = "popn <= fl.Total()"]
    ELSE IF popn = 0 /\ Len(freed) = 0 THEN f
    ELSE With(popNodes(f, [head |-> f.head, popn |-> popn, freed |-> freed,
                           reuse |-> <<>>, total |-> FL_Total(f)]), LAMBDA s :
         IF ~(Len(s.reuse) * FREE_LIST_CAP >= Len(s.freed) \/ s.head = 0)
         THEN [f EXCEPT !.head = s.head,
                        !.err = "len(reuse)*FREE_LIST_CAP >= len(freed) || fl.head == 0"]
         ELSE With(flPush([f EXCEPT !.head = s.head], s.freed, s.reuse), LAMBDA g :
                IF g.err # "" THEN g
                ELSE [g EXCEPT !.pages[g.head].total = s.total + Len(freed)]))

\* FreeList.Update
FL_Update(f, popn, freed) ==
    IF ~(popn <= FL_Total(f)) THEN [f EXCEPT !.err = "popn <= fl.Total()"]
    ELSE IF popn = 0 /\ Len(freed) = 0 THEN f
    ELSE With(popNodes(f, [head |-> f.head, popn |-> popn, freed |-> freed,
                           reuse |-> <<>>, total |-> FL_Total(f)]), LAMBDA s :
         IF ~(Len(s.reuse) * FREE_LIST_CAP >= Len(s.freed) \/ s.head = 0)
         THEN [f EXCEPT !.head = s.head,
                        !.err = "len(reuse)*FREE_LIST_CAP >= len(freed) || fl.head == 0"]
         ELSE With(flPush([f EXCEPT !.head = s.head], s.freed, s.reuse), LAMBDA g :
                IF g.err # "" THEN g
                ELSE [g EXCEPT !.pages[g.head].total = s.total + Len(s.freed)]))

\* the pages top .. top+n-1 of the file, which the tree has released
Released(f, n) == [i \in 1..n |-> f.top + i - 1]

\* a transaction ends: it has taken popn items with Get and it frees n pages
ListUpdate(popn, n) ==
    /\ flist.err = ""
    /\ flist.n < MaxUpdates
    /\ popn <= FL_Total(flist)
    /\ flist' = [FL_Update([flist EXCEPT !.top = @ + n], popn, Released(flist, n))
                    EXCEPT !.call = [popn |-> popn, nfreed |-> n], !.n = flist.n + 1]
    /\ UNCHANGED <<cvars, txvars, dvars, rw, mv, tm, im, pager>>

NextList == \E popn \in 0..MaxPop, n \in FreedLens : ListUpdate(popn, n)

InitList == newC /\ Open("new") /\ NoDisk /\ NoLocks

SpecList == InitList /\ [][NextList]_vars

(***************************************************************************)
(* Claims about the linked free list                                       *)
(***************************************************************************)

\* the pages of the nodes of the list, from the head
RECURSIVE ListNodes(_, _)
ListNodes(f, ptr) ==
    IF ptr = 0 THEN <<>> ELSE <<ptr>> \o ListNodes(f, flnNext(f.pages[ptr]))

\* the items of the list, node after node
RECURSIVE PtrsOf(_, _)
PtrsOf(f, nodes) ==
    IF nodes = <<>> THEN <<>> ELSE f.pages[Head(nodes)].ptrs \o PtrsOf(f, Tail(nodes))

ListSeq(f) == PtrsOf(f, ListNodes(f, f.head))

\* the pages of a sequence of page numbers
PageSet(ptrs) == DOMAIN [p \in {ptrs[i] : i \in DOMAIN ptrs} |-> TRUE]

ListItems(f) == PageSet(ListSeq(f))

\* the items that Get(0) .. Get(popn-1) return
Popped(f, popn) == {FL_Get(f, i).ptr : i \in 0..(popn - 1)}

\* a call of Update has returned
UpdateReturned == flist'.n = flist.n + 1 /\ flist'.err = ""

\* C34: an Update(popn, freed) with popn <= Total() and not both empty
\* removes the items that Get(0) .. Get(popn-1) returned before the call and
\* adds every freed page: afterwards no popped item is in the list and every
\* freed page is, also when freed is empty
C34_UpdatePopsAndAdds ==
    [][UpdateReturned
       => /\ Popped(flist, flist'.call.popn) \cap ListItems(flist') = {}
          /\ PageSet(Released(flist, flist'.call.nfreed)) \subseteq ListItems(flist')]_vars

\* the sum of the sizes of the nodes
RECURSIVE SizeSum(_, _)
SizeSum(f, nodes) ==
    IF nodes = <<>> THEN 0 ELSE flnSize(f.pages[Head(nodes)]) + SizeSum(f, Tail(nodes))

\* C35: after every Update the total of the head node is the sum of the
\* sizes of the nodes from the head to the node whose next is 0, and the
\* head is 0 only when the list has no node
C35_TotalIsSumOfSizes ==
    flist.err = ""
    => /\ FL_Total(flist) = SizeSum(flist, ListNodes(flist, flist.head))
       /\ flist.head = 0 => DOMAIN flist.pages = {}

\* an Update that popped an item and freed a page has left two nodes
C35_Witness ==
    /\ flist.err = ""
    /\ flist.call.popn > 0
    /\ flist.call.nfreed > 0
    /\ Len(ListNodes(flist, flist.head)) >= 2

\* the pages of the nodes of the list
NodePages(f) == PageSet(ListNodes(f, f.head))

\* C36: no assertion of Update and flPush fails for 0 <= popn <= Total(),
\* and every item of the old list that was not popped, every freed page and
\* every page of a node of the old list is afterwards an item of the list or
\* the page of a node of the list
C36_UpdateKeepsEveryPage ==
    [][flist'.n = flist.n + 1
       => /\ flist'.err = ""
          /\ \/ flist'.call.popn = 0 /\ flist'.call.nfreed = 0
             \/ ((ListItems(flist) \ Popped(flist, flist'.call.popn))
                    \cup PageSet(Released(flist, flist'.call.nfreed))
                    \cup NodePages(flist))
                \subseteq PageSet(ListSeq(flist') \o ListNodes(flist', flist'.head))]_vars

(***************************************************************************)
(* The file and the mappings of the KV of src/unnamed/part_001             *)
(***************************************************************************)

\* the updates that the model makes and the numbers of pages they append
MaxSets == 3
AppendLens == {1, 2, 3, MmapPages - 1, MmapPages, 64 * (2^20)}

\* pageRead: the index of the chunk that holds the page ptr, 0 for "bad ptr"
RECURSIVE pageReadFrom(_, _, _, _)
pageReadFrom(chunks, i, start, ptr) ==
    IF i > Len(chunks) THEN 0
    ELSE IF ptr < start + chunks[i].len \div BTREE_PAGE_SIZE THEN i
    ELSE pageReadFrom(chunks, i + 1, start + chunks[i].len \div BTREE_PAGE_SIZE, ptr)

\* copy(db.pageRead(ptr), page): how it ends
copyPage(st, ptr) ==
    With(pageReadFrom(st.chunks, 1, 0, ptr), LAMBDA c :
       IF c = 0 THEN "bad ptr"
       ELSE IF ~st.chunks[c].rw THEN "SIGSEGV"
       ELSE IF ptr >= st.file THEN "SIGBUS"
       ELSE "")

\* the first page of every chunk, and the first page after the chunks
RECURSIVE ChunkStarts(_, _, _)
ChunkStarts(chunks, i, start) ==
    IF i > Len(chunks) THEN {start}
    ELSE {start} \cup ChunkStarts(chunks, i + 1, start + chunks[i].len \div BTREE_PAGE_SIZE)

\* the loop of writePages over page.temp: the first copy that does not end
\* well; pages of one chunk end alike, so the loop is decided at flushed,
\* at the first page of a chunk and at the end of the file
copyPages(st) ==
    With({ptr \in {st.flushed, st.file} \cup ChunkStarts(st.chunks, 1, 0) :
             /\ st.flushed <= ptr
             /\ ptr < st.flushed + st.temp
             /\ copyPage(st, ptr) # ""}, LAMBDA bad :
       IF bad = {} THEN ""
       ELSE copyPage(st, CHOOSE ptr \in bad : \A q \in bad : ptr <= q))

\* extendFile of part_001: the outcomes [st, err]; Fallocate can fail
P1_extendFile(st, npages) ==
    IF st.file >= npages THEN {[st |-> st, err |-> ""]}
    ELSE {[st |-> st, err |-> "fallocate"],
          [st |-> [st EXCEPT !.file = grow(st.file, npages)], err |-> ""]}

\* extendMmap: the size of the new mapping
RECURSIVE allocFor(_, _, _)
allocFor(total, alloc, size) ==
    IF total + alloc < size THEN allocFor(total, alloc * 2, size) ELSE alloc

\* extendMmap: the outcomes [st, err]; Mmap can fail
extendMmap(st, size) ==
    IF size <= st.total THEN {[st |-> st, err |-> ""]}
    ELSE With(allocFor(st.total, IF st.total > 64 * (2^20) THEN st.total ELSE 64 * (2^20), size),
              LAMBDA alloc :
           {[st |-> st, err |-> "mmap"],
            [st |-> [st EXCEPT !.total = @ + alloc,
                               !.chunks = Append(@, [len |-> alloc, rw |-> FALSE])],
             err |-> ""]})

\* writePages of part_001: the outcomes [st, err]
P1_writePages(st) ==
    UNION {IF f.err # "" THEN {f}
           ELSE UNION {IF m.err # "" THEN {m}
                       ELSE {[st |-> [m.st EXCEPT !.panic = copyPages(m.st)], err |-> ""]}
                       : m \in extendMmap(f.st, st.flushed + st.temp)}
           : f \in P1_extendFile(st, st.flushed + st.temp)}

\* syncPages of part_001: the outcomes [st, err]; each Sync can fail
P1_syncPages(st) ==
    {[st |-> st, err |-> "fsync"]}
    \cup {[st |-> [st EXCEPT !.flushed = @ + st.temp, !.temp = 0],
           err |-> IF ok THEN "" ELSE "fsync"] : ok \in BOOLEAN}

\* flushPages of part_001; wrote: writePages has returned nil
P1_flushPages(st) ==
    UNION {IF w.st.panic # "" \/ w.err # ""
           THEN {[st |-> [w.st EXCEPT !.wrote = FALSE], err |-> w.err]}
           ELSE {[st |-> [o.st EXCEPT !.wrote = TRUE], err |-> o.err] : o \in P1_syncPages(w.st)}
           : w \in P1_writePages(st)}

\* KV.Set or KV.Del of part_001: the tree appends n pages with pageNew and
\* flushPages writes them
StoreSet(n) ==
    /\ pager.panic = ""
    /\ pager.n < MaxSets
    /\ \E o \in P1_flushPages([pager EXCEPT !.temp = @ + n]) :
          pager' = [o.st EXCEPT !.err = o.err, !.n = pager.n + 1]
    /\ UNCHANGED <<cvars, txvars, dvars, rw, mv, flist, tm, im>>

NextPager == \E n \in AppendLens : StoreSet(n)

InitPager == newC /\ Open("new") /\ NoDisk /\ NoLocks

SpecPager == InitPager /\ [][NextPager]_vars

(***************************************************************************)
(* Claims about the file and the mappings                                  *)
(***************************************************************************)

\* the number of pages that the chunks map
MappedPages(st) == CHOOSE e \in ChunkStarts(st.chunks, 1, 0) :
                       \A q \in ChunkStarts(st.chunks, 1, 0) : q <= e

TmIdle(t) == tm.transactions[t].status # "none" /\ tm.transactions[t].pc = "idle"

\* TransactionManager.BeginTransaction
TmBegin(isolation) ==
    /\ tm.nextID <= MaxTmTx
    /\ tm' = [tm EXCEPT !.transactions[tm.nextID] =
                            [NoTransaction EXCEPT !.status = "Active",
                                                  !.isolation = isolation],
                        !.nextID = @ + 1]
    /\ UNCHANGED <<cvars, txvars, dvars, rw, mv, flist, im, pager>>

\* Transaction.AcquireLock
AcquireLock(t, table) ==
    /\ TmIdle(t)
    /\ IF tm.transactions[t].status # "Active"
       THEN tm' = [tm EXCEPT !.transactions[t].ret = "transaction is not active"]
       ELSE /\ ~tm.transactions[t].mu
            /\ tm' = [tm EXCEPT !.transactions[t].locks = @ \cup {table},
                                !.transactions[t].ret = "nil"]
    /\ UNCHANGED <<cvars, txvars, dvars, rw, mv, flist, im, pager>>

\* Transaction.ReleaseLock, once it has tx.mu: called by the goroutine of
\* the transaction, or by releaseLocks for a table of tx.Locks
ReleaseLock(t, table) ==
    /\ \/ TmIdle(t)
       \/ /\ tm.transactions[t].pc \in {"commit", "abort"}
          /\ table \in tm.transactions[t].locks
    /\ ~tm.transactions[t].mu
    /\ tm' = [tm EXCEPT !.transactions[t].locks = @ \ {table}]
    /\ UNCHANGED <<cvars, txvars, dvars, rw, mv, flist, im, pager>>

\* TransactionManager.validateTransaction
TM_validateTransaction(tx) ==
    IF tx.isolation \in {"ReadUncommitted", "ReadCommitted", "RepeatableRead", "Serializable"}
    THEN "nil"
    ELSE "unknown isolation level"

\* TransactionManager.CommitTransaction up to releaseLocks: it locks tx.mu,
\* and unlocks it when it returns
CommitTransaction(t) ==
    /\ TmIdle(t)
    /\ ~tm.transactions[t].mu
    /\ tm' = IF tm.transactions[t].status # "Active"
             THEN [tm EXCEPT !.transactions[t].ret = "transaction is not active"]
             ELSE IF TM_validateTransaction(tm.transactions[t]) # "nil"
             THEN [tm EXCEPT !.transactions[t].status = "Aborted",
                             !.transactions[t].ret = "transaction validation failed"]
             ELSE [tm EXCEPT !.transactions[t].mu = TRUE,
                             !.transactions[t].pc = "commit"]
    /\ UNCHANGED <<cvars, txvars, dvars, rw, mv, flist, im, pager>>

\* TransactionManager.AbortTransaction up to releaseLocks
AbortTransaction(t) ==
    /\ TmIdle(t)
    /\ ~tm.transactions[t].mu
    /\ tm' = IF tm.transactions[t].status # "Active"
             THEN [tm EXCEPT !.transactions[t].ret = "transaction is not active"]
             ELSE [tm EXCEPT !.transactions[t].mu = TRUE,
                             !.transactions[t].pc = "abort"]
    /\ UNCHANGED <<cvars, txvars, dvars, rw, mv, flist, im, pager>>

\* the loop of releaseLocks has ended: the call sets the status and returns
TmReturn(t) ==
    /\ tm.transactions[t].pc \in {"commit", "abort"}
    /\ tm.transactions[t].locks = {}
    /\ tm' = [tm EXCEPT !.transactions[t].status =
                            IF tm.transactions[t].pc = "commit" THEN "Committed" ELSE "Aborted",
                        !.transactions[t].mu = FALSE,
                        !.transactions[t].pc = "idle",
                        !.transactions[t].ret = "nil"]
    /\ UNCHANGED <<cvars, txvars, dvars, rw, mv, flist, im, pager>>

NextTM ==
    \/ \E isolation \in TmLevels : TmBegin(isolation)
    \/ \E t \in TmTxs, table \in TmTables : AcquireLock(t, table)
    \/ \E t \in TmTxs, table \in TmTables : ReleaseLock(t, table)
    \/ \E t \in TmTxs : CommitTransaction(t)
    \/ \E t \in TmTxs : AbortTransaction(t)
    \/ \E t \in TmTxs : TmReturn(t)

InitTM == newC /\ Open("new") /\ NoDisk /\ NoLocks

\* a goroutine that can go on does go on
SpecTM ==
    /\ InitTM
    /\ [][NextTM]_vars
    /\ \A t \in TmTxs : /\ WF_vars(TmReturn(t))
                        /\ WF_vars(\E table \in TmTables :
                                      /\ tm.transactions[t].pc # "idle"
                                      /\ ReleaseLock(t, table))

(***************************************************************************)
(* Claims about the TransactionManager                                     *)
(***************************************************************************)

\* C38: CommitTransaction and AbortTransaction on an active transaction
\* always terminate, also when the transaction holds table locks: they
\* release every lock and leave the status Committed or Aborted
C38_CommitAbortTerminate ==
    \A t \in TmTxs :
       (tm.transactions[t].pc \in {"commit", "abort"})
       ~> /\ tm.transactions[t].pc = "idle"
          /\ tm.transactions[t].status \in {"Committed", "Aborted"}
          /\ tm.transactions[t].locks = {}

(***************************************************************************)
(* Claims about concurrent MVCC transactions                               *)
(***************************************************************************)

\* C39: under every interleaving of CommitTransaction calls, two
\* transactions that both read and then wrote the same key while both were
\* active do not both end committed
C39_OneOfTwoCommits ==
    \A t, u \in DOMAIN mv.transactions, k \in MvKeys :
       (/\ t # u
        /\ <<k, u>> \in mv.transactions[t].both
        /\ <<k, t>> \in mv.transactions[u].both)
       => ~(/\ mv.transactions[t].status = "committed"
            /\ mv.transactions[u].status = "committed")

(***************************************************************************)
(* The IsolationManager of the transaction package                         *)
(***************************************************************************)

\* a call has returned
ImReturn(m, op, t, table, isolation, ret, err) ==
    [m EXCEPT !.n = @ + 1,
              !.last = [op |-> op, tx |-> t, table |-> table, isolation |-> isolation,
                        ret |-> ret, err |-> err]]

\* map[txID][table] = version, making the inner map when it is nil
SetVersion(versions, t, table, version) ==
    Put(versions, t, Put(IF t \in DOMAIN versions THEN versions[t] ELSE <<>>, table, version))

\* the delete of a transaction from a map
Forget(versions, t) == [u \in DOMAIN versions \ {t} |-> versions[u]]

\* IsolationManager.BeginTransaction
ImBegin(t, isolation) ==
    /\ im.n < MaxImOps
    /\ im' = ImReturn([im EXCEPT !.readVersions = Put(@, t, <<>>),
                                 !.writeVersions = Put(@, t, <<>>)],
                      "Begin", t, "", isolation, 0, "")
    /\ UNCHANGED <<cvars, txvars, dvars, rw, mv, flist, tm, pager>>

\* IsolationManager.ReadOperation: [m, ret, err]
ReadOperation(m, t, table, isolation) ==
    With(m.versionMap[table], LAMBDA currentVersion :
    With([m EXCEPT !.readVersions = SetVersion(@, t, table, currentVersion)], LAMBDA m1 :
       IF isolation \in {"ReadUncommitted", "ReadCommitted"}
       THEN [m |-> m1, ret |-> currentVersion, err |-> ""]
       ELSE IF isolation \in {"RepeatableRead", "Serializable"}
       THEN IF table \in DOMAIN m1.readVersions[t] /\ m1.readVersions[t][table] # currentVersion
            THEN [m |-> m1, ret |-> 0, err |-> "read violation"]
            ELSE [m |-> m1, ret |-> currentVersion, err |-> ""]
       ELSE [m |-> m1, ret |-> 0, err |-> "unknown isolation level"]))

ImRead(t, table, isolation) ==
    /\ im.n < MaxImOps
    /\ With(ReadOperation(im, t, table, isolation), LAMBDA r :
          im' = ImReturn(r.m, "Read", t, table, isolation, r.ret, r.err))
    /\ UNCHANGED <<cvars, txvars, dvars, rw, mv, flist, tm, pager>>

\* checkReadWriteConflicts, checkWriteWriteConflicts: there is a conflict
checkReadWriteConflicts(m, t, table, currentVersion) ==
    \E u \in DOMAIN m.readVersions \ {t} :
       table \in DOMAIN m.readVersions[u] /\ m.readVersions[u][table] < currentVersion

checkWriteWriteConflicts(m, t, table, currentVersion) ==
    \E u \in DOMAIN m.writeVersions \ {t} :
       table \in DOMAIN m.writeVersions[u] /\ m.writeVersions[u][table] >= currentVersion

\* IsolationManager.WriteOperation
WriteOperation(m, t, table, isolation) ==
    With(m.versionMap[table], LAMBDA currentVersion :
    With([m EXCEPT !.writeVersions = SetVersion(@, t, table, currentVersion)], LAMBDA m1 :
       IF isolation = "ReadUncommitted"
       THEN [m |-> m1, ret |-> currentVersion, err |-> ""]
       ELSE IF /\ isolation \in {"RepeatableRead", "Serializable"}
               /\ checkReadWriteConflicts(m1, t, table, currentVersion)
       THEN [m |-> m1, ret |-> 0, err |-> "read-write conflict"]
       ELSE IF checkWriteWriteConflicts(m1, t, table, currentVersion)
       THEN [m |-> m1, ret |-> 0, err |-> "write-write conflict"]
       ELSE [m |-> m1, ret |-> currentVersion, err |-> ""]))

ImWrite(t, table, isolation) ==
    /\ im.n < MaxImOps
    /\ With(WriteOperation(im, t, table, isolation), LAMBDA r :
          im' = ImReturn(r.m, "Write", t, table, isolation, r.ret, r.err))
    /\ UNCHANGED <<cvars, txvars, dvars, rw, mv, flist, tm, pager>>

\* IsolationManager.CommitTransaction
ImCommit(t) ==
    /\ im.n < MaxImOps
    /\ im' = ImReturn([im EXCEPT !.versionMap =
                                     [table \in ImTables |->
                                        IF t \in DOMAIN im.writeVersions
                                           /\ table \in DOMAIN im.writeVersions[t]
                                        THEN @[table] + 1 ELSE @[table]],
                                 !.readVersions = Forget(@, t),
                                 !.writeVersions = Forget(@, t)],
                      "Commit", t, "", "", 0, "")
    /\ UNCHANGED <<cvars, txvars, dvars, rw, mv, flist, tm, pager>>

\* IsolationManager.AbortTransaction
ImAbort(t) ==
    /\ im.n < MaxImOps
    /\ im' = ImReturn([im EXCEPT !.readVersions = Forget(@, t),
                                 !.writeVersions = Forget(@, t)],
                      "Abort", t, "", "", 0, "")
    /\ UNCHANGED <<cvars, txvars, dvars, rw, mv, flist, tm, pager>>

NextIM ==
    \/ \E t \in ImTxs, isolation \in ImLevels : ImBegin(t, isolation)
    \/ \E t \in ImTxs, table \in ImTables, isolation \in ImLevels : ImRead(t, table, isolation)
    \/ \E t \in ImTxs, table \in ImTables, isolation \in ImLevels : ImWrite(t, table, isolation)
    \/ \E t \in ImTxs : ImCommit(t)
    \/ \E t \in ImTxs : ImAbort(t)

InitIM == newC /\ Open("new") /\ NoDisk /\ NoLocks

SpecIM == InitIM /\ [][NextIM]_vars

(***************************************************************************)
(* Claims about the IsolationManager                                       *)
(***************************************************************************)

\* the transaction of the call has a read version of the table of the call
HasRead(m, call) ==
    /\ call.tx \in DOMAIN m.readVersions
    /\ call.table \in DOMAIN m.readVersions[call.tx]

\* C40: under RepeatableRead or Serializable, ReadOperation returns an
\* error when the transaction has read the table before and the version of
\* the table has changed since, and returns the current version without an
\* error on the first read or when the version has not changed
C40_RepeatableReadDetectsChange ==
    [][(/\ im'.n = im.n + 1
        /\ im'.last.op = "Read"
        /\ im'.last.isolation \in {"RepeatableRead", "Serializable"})
       => IF /\ HasRead(im, im'.last)
             /\ im.readVersions[im'.last.tx][im'.last.table] # im.versionMap[im'.last.table]
          THEN im'.last.err # ""
          ELSE /\ im'.last.err = ""
               /\ im'.last.ret = im.versionMap[im'.last.table]]_vars

====
